---- MODULE Spec2Model ----
(***************************************************************************)
(* A model of imagebuildah/build.go: the stage executor's volume cache     *)
(* (Preserve, volumeCacheInvalidate, volumeCacheSave, volumeCacheRestore,  *)
(* Copy, Run), the per-stage step loop (Execute,                           *)
(* layerExists, historyMatches, copiedFilesMatch, Commit, Prepare) and the *)
(* build orchestrator (Build and its cleanup closure).                     *)
(*                                                                         *)
(* The calls imagebuilder makes into the StageExecutor are Preserve, Copy  *)
(* and Run, in any order.                                                  *)
(*                                                                         *)
(* Strings are sequences of one-character strings, so strings.HasPrefix    *)
(* and strings.Contains are computed on the text as the code computes      *)
(* them.  Paths inside the working container are written without the       *)
(* mountpoint prefix that filepath.Join(s.mountPoint, path) adds.          *)
(***************************************************************************)
EXTENDS Integers, Sequences, FiniteSets, TLC

VARIABLES
    \* ---- StageExecutor volume state (build.go:235-249) ----
    volumes,          \* s.volumes: the VolumeSet, as a set of paths
    volumeCache,      \* s.volumeCache: path -> number N of "volumeN.tar"
    volumeCacheInfo,  \* s.volumeCacheInfo: path -> captured stat
    preserved,        \* s.preserved
    \* ---- the working container's root filesystem and scratch directory ----
    dirs,             \* directory -> Absent or its metadata
    files,            \* file -> NoContent or a content tag
    tars,             \* the existing volumeN.tar files: N -> archive
    \* ---- observation of the last StageExecutor call ----
    volLast,          \* what the last operation was and what it returned
    volHist,          \* what has been preserved / targeted by COPY so far
    \* ---- the inputs of BuildDockerfiles ----
    opts,             \* BuildOptions as NewExecutor reads them (652-655)
    numStages,        \* len(stages)
    dockerfile,       \* the stages Build has reached so far, in order
    srcMtime,         \* modification time of the context directory's file
    pathList,         \* paths: the Dockerfiles named by the caller
    target,           \* options.Target
    userArgs,         \* the names of options.Args
    \* ---- the locals of BuildDockerfiles ----
    dockerfiles,      \* what processCopyFrom made of the files read
    parsed,           \* the stages handed to Build
    fpc,              \* position in BuildDockerfiles
    \* ---- Executor (build.go:178-222) and the locals of Build ----
    stages,           \* b.stages: key -> index of the StageExecutor
    imageMap,         \* b.imageMap: AS name -> image id
    topLayers,        \* b.topLayers
    cleanupStages,    \* Build's cleanupStages, the set of its keys
    cleanupImages,    \* Build's cleanupImages
    imageID,          \* Build's imageID
    unusedArgs,       \* b.unusedArgs
    out,              \* what has been written to b.out
    se,               \* the StageExecutors, by stage index (1-based)
    \* ---- where Build and Execute are ----
    pc,               \* position in Build
    stageIndex,       \* the stage being built (1-based)
    stepIndex,        \* the instruction Execute is at (1-based)
    checkForLayers,   \* Execute's checkForLayers
    buildErr,         \* the error Build returns, by where it arose
    \* ---- the store ----
    containers,       \* live containers: id -> builder state
    images,           \* images: id -> [topLayer, history]
    nextID,           \* ids handed out so far (containers and images)
    clock,            \* the time
    \* ---- observation ----
    buildNo,          \* which call of BuildDockerfiles this is
    blog              \* what the builds did

volVars == <<volumes, volumeCache, volumeCacheInfo, preserved, dirs, files,
             tars, volLast, volHist>>

inputVars == <<opts, numStages, dockerfile, srcMtime>>
execVars == <<stages, imageMap, topLayers, cleanupStages, cleanupImages,
              imageID, se>>
ctlVars == <<pc, stageIndex, stepIndex, checkForLayers, buildErr>>
storeVars == <<containers, images, nextID, clock>>
frontVars == <<pathList, target, dockerfiles, parsed, fpc>>
argVars == <<userArgs, unusedArgs, out>>
buildVars == <<inputVars, execVars, ctlVars, storeVars, buildNo, blog,
               frontVars, argVars>>

vars == <<volVars, buildVars>>

----------------------------------------------------------------------------
(* Bounds *)

\* Number of calls (Preserve, Copy, Run) the step loop makes into one stage
MaxOps == 4
\* Number of stages of a Dockerfile
MaxStages == 2
\* Number of instructions of a stage
MaxSteps == 2
\* The most Dockerfiles given to one call of BuildDockerfiles
MaxPaths == 2

----------------------------------------------------------------------------
(* Strings *)

Sep == <<"/">>

\* strings.HasPrefix(s, prefix)
HasPrefix(s, prefix) ==
    /\ Len(prefix) <= Len(s)
    /\ SubSeq(s, 1, Len(prefix)) = prefix

\* strings.Contains(s, substr)
Contains(s, substr) ==
    \E k \in 0..(Len(s) - Len(substr)) : SubSeq(s, k + 1, k + Len(substr)) = substr

\* strings.TrimSuffix(path, "/")
TrimSep(path) ==
    IF Len(path) > 0 /\ path[Len(path)] = "/"
    THEN SubSeq(path, 1, Len(path) - 1)
    ELSE path

----------------------------------------------------------------------------
(* The container's file tree *)

pA  == <<"/", "a">>
pAB == <<"/", "a", "/", "b">>
pAb == <<"/", "a", "b">>
pL  == <<"/", "l">>

Dirs == {pA, pAB, pAb}
FileOf(d) == d \o <<"/", "f">>
Files == {FileOf(pA), FileOf(pAB)}

\* Symbolic links of the base image: /l -> /a/b.
Links == [p \in {pL} |-> pAB]

\* A directory that does not exist
Absent == [mode |-> "absent", uid |-> 0, mtime |-> "absent"]
NoContent == "none"

\* Metadata of a directory: mode, owner and modification time.
BaseMeta == [mode |-> "0700", uid |-> 1000, mtime |-> "t0"]
\* os.MkdirAll(path, 0755) by the build process (root), now.
NewMeta  == [mode |-> "0755", uid |-> 0, mtime |-> "t1"]
\* What a RUN command leaves after chmod/chown/touch.
RunMeta  == [mode |-> "0777", uid |-> 1000, mtime |-> "t2"]

\* d is p or an ancestor directory of p
AtOrAbove(d, p) == d = p \/ HasPrefix(p, d \o Sep)
\* p lies strictly below directory d
Below(d, p) == HasPrefix(p, d \o Sep)

\* os.MkdirAll(path, 0755): create path and the missing directories above it.
MkdirAll(ds, path) ==
    [d \in Dirs |-> IF AtOrAbove(d, TrimSep(path)) /\ ds[d] = Absent
                    THEN NewMeta ELSE ds[d]]

\* os.RemoveAll(path)
RemoveAllDirs(ds, path) ==
    [d \in Dirs |-> IF AtOrAbove(path, d) THEN Absent ELSE ds[d]]

RemoveAllFiles(fs, path) ==
    [f \in Files |-> IF Below(path, f) THEN NoContent ELSE fs[f]]

\* archive.Tar(path, Uncompressed): everything below path; the directory
\* itself is not an entry of the archive.
Tar(ds, fs, path) ==
    [dirs  |-> [d \in {x \in Dirs : Below(path, x)} |-> ds[d]],
     files |-> [f \in {x \in Files : Below(path, x)} |-> fs[f]]]

\* archive.Untar(cache, path, nil) over a freshly created directory
UntarDirs(ds, tar) ==
    [d \in Dirs |-> IF d \in DOMAIN tar.dirs /\ tar.dirs[d] # Absent
                    THEN tar.dirs[d] ELSE ds[d]]

UntarFiles(fs, tar) ==
    [f \in Files |-> IF f \in DOMAIN tar.files /\ tar.files[f] # NoContent
                     THEN tar.files[f] ELSE fs[f]]

Restrict(f, S) == [x \in S |-> f[x]]

Put(f, k, v) == [x \in (DOMAIN f) \cup {k} |-> IF x = k THEN v ELSE f[x]]

----------------------------------------------------------------------------
(* imagebuilder.VolumeSet, as build.go uses it *)

\* s.volumes.Covers(path)
Covers(vs, path) ==
    \E p \in vs : p = TrimSep(path) \/ HasPrefix(TrimSep(path), p \o Sep)

\* An Add that keeps the entries below the new path, which the claim about
\* the VolumeSet has to tell from VolumeSetAdd
VolumeSetAddKeepsSubPaths(vs, path) ==
    IF Covers(vs, path) THEN vs ELSE vs \cup {TrimSep(path)}

\* s.volumes.Add(path): the set after the call; unchanged when path is
\* already covered (Add then returns false)
VolumeSetAdd(vs, path) ==
    IF Covers(vs, path)
    THEN vs
    ELSE {p \in vs : ~HasPrefix(p, TrimSep(path) \o Sep)} \cup {TrimSep(path)}

\* resolveSymlink(s.mountPoint, path)
ResolveSymlink(path) ==
    IF path \in DOMAIN Links THEN Links[path] ELSE path

----------------------------------------------------------------------------
(* The stage executor's volume cache.  Each operator maps the stage's      *)
(* state, a record st with fields volumes, volumeCache, volumeCacheInfo,   *)
(* preserved, dirs, files and tars, to the state the method leaves.        *)

StageState ==
    [volumes |-> volumes, volumeCache |-> volumeCache,
     volumeCacheInfo |-> volumeCacheInfo, preserved |-> preserved,
     dirs |-> dirs, files |-> files, tars |-> tars]

\* The loop body shared by volumeCacheInvalidate (396-406) and the pruning
\* loop of Preserve (373-383): os.Remove the cache file; when it does not
\* exist `continue`, which skips the delete() of the map entry.
RemoveCaches(st, paths) ==
    LET gone == {c \in paths : st.volumeCache[c] \in DOMAIN st.tars}
    IN  [st EXCEPT
           !.tars = Restrict(st.tars,
                       DOMAIN st.tars \ {st.volumeCache[c] : c \in gone}),
           !.volumeCache = Restrict(st.volumeCache,
                       DOMAIN st.volumeCache \ gone)]

volumeCacheInvalidate(st, path) ==
    RemoveCaches(st, {c \in DOMAIN st.volumeCache : HasPrefix(path, c \o Sep)})

\* Preserve: [st |-> state left, err |-> whether an error is returned]
PreserveOn(st, path) ==
    IF Covers(st.volumes, path)
    THEN [st  |-> volumeCacheInvalidate(
                      [st EXCEPT !.dirs = MkdirAll(st.dirs, path)], path),
          err |-> FALSE]
    ELSE
      LET n      == st.preserved + 1
          rpath  == ResolveSymlink(path)
          ds     == MkdirAll(st.dirs, rpath)
          s1     == [st EXCEPT !.preserved = n,
                               !.dirs = ds,
                               !.volumeCacheInfo =
                                   Put(st.volumeCacheInfo, rpath, ds[rpath])]
          vs     == VolumeSetAdd(st.volumes, rpath)
          s2     == [s1 EXCEPT !.volumes = vs,
                               !.volumeCache = Put(s1.volumeCache, rpath, n)]
      IN  IF Covers(st.volumes, rpath)
          THEN [st |-> s1, err |-> TRUE]
          ELSE [st  |-> RemoveCaches(s2,
                            {c \in DOMAIN s2.volumeCache : c \notin vs}),
                err |-> FALSE]

\* An iteration that writes the snapshot file also when there is one, which
\* the claim about the snapshot being written once has to tell from SaveOne
SaveOneAgain(st, c) ==
    LET ds == MkdirAll(st.dirs, c)
    IN  [st EXCEPT !.dirs = ds,
                   !.tars = Put(st.tars, st.volumeCache[c],
                                Tar(ds, st.files, c))]

\* One iteration of volumeCacheSave's loop for cachedPath c
SaveOne(st, c) ==
    IF st.volumeCache[c] \in DOMAIN st.tars
    THEN st
    ELSE LET ds == MkdirAll(st.dirs, c)
         IN  [st EXCEPT !.dirs = ds,
                        !.tars = Put(st.tars, st.volumeCache[c],
                                     Tar(ds, st.files, c))]

\* One iteration of volumeCacheRestore's loop for cachedPath c
RestoreOne(st, c) ==
    LET tar == st.tars[st.volumeCache[c]]
        d1  == MkdirAll(RemoveAllDirs(st.dirs, c), c)
        d2  == UntarDirs(d1, tar)
        f2  == UntarFiles(RemoveAllFiles(st.files, c), tar)
        d3  == IF c \in DOMAIN st.volumeCacheInfo
               THEN [d2 EXCEPT ![c] =
                        [mode  |-> st.volumeCacheInfo[c].mode,
                         uid   |-> 0,
                         mtime |-> st.volumeCacheInfo[c].mtime]]
               ELSE d2
    IN  [st EXCEPT !.dirs = d3, !.files = f2]

\* Go ranges over a map in an unspecified order: order is the order taken.
RECURSIVE SaveSeq(_, _)
SaveSeq(st, order) ==
    IF order = <<>> THEN st
    ELSE SaveSeq(SaveOne(st, Head(order)), Tail(order))

\* volumeCacheSave: failAt = k > 0 is a failure of a system call (os.Stat,
\* 415) in the k-th iteration of the loop, which ends it with an error
\* after k - 1 iterations; failAt = 0 is no failure.
volumeCacheSave(st, order, failAt) ==
    LET n == IF failAt = 0 THEN Len(order) ELSE failAt - 1
    IN  [st  |-> SaveSeq(st, SubSeq(order, 1, n)),
         err |-> failAt # 0]

RECURSIVE RestoreSeq(_, _)
RestoreSeq(st, order) ==
    IF order = <<>> THEN st
    ELSE RestoreSeq(RestoreOne(st, Head(order)), Tail(order))

\* volumeCacheRestore: an entry whose cache file cannot be opened ends the
\* loop with an error; so does a failure of os.Open (450) in the failAt-th
\* iteration (failAt = 0 is no such failure).
volumeCacheRestore(st, order, failAt) ==
    LET ok == {k \in 1..Len(order) :
                 /\ failAt = 0 \/ k < failAt
                 /\ \A j \in 1..k : st.volumeCache[order[j]] \in DOMAIN st.tars}
        n  == Cardinality(ok)
    IN  [st  |-> RestoreSeq(st, SubSeq(order, 1, n)),
         err |-> n < Len(order)]

\* The orders in which a map with key set S can be ranged over
Orders(S) ==
    {o \in [1..Cardinality(S) -> S] : \A i, j \in DOMAIN o : o[i] = o[j] => i = j}

\* builder.Add(dest, ...): the source file f lands in dest when dest names a
\* directory (a trailing separator, or an existing directory)
AddTarget(dest) == FileOf(TrimSep(dest))

BuilderAdd(st, dest) ==
    [st EXCEPT !.dirs  = MkdirAll(st.dirs, TrimSep(dest)),
               !.files = [st.files EXCEPT ![AddTarget(dest)] = "copy"]]

\* Copy (482-518), for one imagebuilder.Copy with a source of the context
\* directory
CopyOn(st, dest) == BuilderAdd(volumeCacheInvalidate(st, dest), dest)

\* What the command of a RUN instruction does to the file tree
RunEffects ==
    {[kind |-> "none", path |-> <<>>]}
      \cup {[kind |-> "write", path |-> f] : f \in Files}
      \cup {[kind |-> "remove", path |-> f] : f \in Files}
      \cup {[kind |-> "chmeta", path |-> d] : d \in {pA, pAB}}

\* builder.Run(args, options)
BuilderRun(st, e) ==
    CASE e.kind = "write" ->
           [st EXCEPT !.dirs  = MkdirAll(st.dirs,
                                   CHOOSE d \in Dirs : FileOf(d) = e.path),
                      !.files = [st.files EXCEPT ![e.path] = "run"]]
      [] e.kind = "remove" ->
           [st EXCEPT !.files = [st.files EXCEPT ![e.path] = NoContent]]
      [] e.kind = "chmeta" ->
           IF st.dirs[e.path] = Absent THEN st
           ELSE [st EXCEPT !.dirs = [st.dirs EXCEPT ![e.path] = RunMeta]]
      [] OTHER -> st

\* What can fail in one call of Run: an iteration of volumeCacheSave, the
\* command, an iteration of volumeCacheRestore
Fails ==
    [save : 0..Cardinality(Dirs), run : BOOLEAN, restore : 0..Cardinality(Dirs)]
Call(fn, err) == [fn |-> fn, err |-> err]

\* A Run that resets the volumes only after a command that succeeded, which
\* the claim about the order of the calls in Run has to tell from RunOn
RunOnNoRestoreAfterFailure(st, e, fails, saveOrder, restoreOrder) ==
    LET sv == volumeCacheSave(st, saveOrder, fails.save)
        s2 == BuilderRun(sv.st, e)
        r  == volumeCacheRestore(s2, restoreOrder, fails.restore)
    IN  IF sv.err
        THEN [st |-> sv.st, err |-> "save",
              calls |-> <<Call("volumeCacheSave", TRUE)>>]
        ELSE IF fails.run
        THEN [st |-> s2, err |-> "run",
              calls |-> <<Call("volumeCacheSave", FALSE),
                          Call("builder.Run", TRUE)>>]
        ELSE [st  |-> r.st,
              err |-> IF r.err THEN "restore" ELSE "nil",
              calls |-> <<Call("volumeCacheSave", FALSE),
                          Call("builder.Run", FALSE),
                          Call("volumeCacheRestore", r.err)>>]

\* A Run that returns the error of volumeCacheRestore whatever the command
\* returned, which the claim about the error of Run has to tell from RunOn
RunOnRestoreErrorFirst(st, e, fails, saveOrder, restoreOrder) ==
    LET sv == volumeCacheSave(st, saveOrder, fails.save)
        s2 == BuilderRun(sv.st, e)
        r  == volumeCacheRestore(s2, restoreOrder, fails.restore)
    IN  IF sv.err
        THEN [st |-> sv.st, err |-> "save",
              calls |-> <<Call("volumeCacheSave", TRUE)>>]
        ELSE [st  |-> r.st,
              err |-> IF r.err THEN "restore"
                      ELSE IF fails.run THEN "run" ELSE "nil",
              calls |-> <<Call("volumeCacheSave", FALSE),
                          Call("builder.Run", fails.run),
                          Call("volumeCacheRestore", r.err)>>]

\* Run (536-587): [st, err, calls]; err is "nil", "save" (volumeCacheSave's
\* error, 577-579), "run" (builder.Run's error) or "restore"
\* (volumeCacheRestore's error, returned when builder.Run succeeded,
\* 581-586); calls are the calls made, in order, each with whether it
\* returned an error
RunOn(st, e, fails, saveOrder, restoreOrder) ==
    LET sv == volumeCacheSave(st, saveOrder, fails.save)
        s2 == BuilderRun(sv.st, e)
        r  == volumeCacheRestore(s2, restoreOrder, fails.restore)
    IN  IF sv.err
        THEN [st |-> sv.st, err |-> "save",
              calls |-> <<Call("volumeCacheSave", TRUE)>>]
        ELSE [st  |-> r.st,
              err |-> IF fails.run THEN "run"
                      ELSE IF r.err THEN "restore" ELSE "nil",
              calls |-> <<Call("volumeCacheSave", FALSE),
                          Call("builder.Run", fails.run),
                          Call("volumeCacheRestore", r.err)>>]

----------------------------------------------------------------------------
(* One stage's calls into its StageExecutor *)

\* Arguments of Preserve and destinations of COPY/ADD
PreserveArgs == Dirs \cup {pL}
CopyDests == {pA, pA \o Sep, pAB \o Sep}

EmptyMap == [x \in {} |-> x]

\* COPY/ADD with destination dest targets volume v: dest is v or lies under v
Targets(dest, v) == TrimSep(dest) = v \/ HasPrefix(dest, v \o Sep)

SetStage(st) ==
    /\ volumes' = st.volumes
    /\ volumeCache' = st.volumeCache
    /\ volumeCacheInfo' = st.volumeCacheInfo
    /\ preserved' = st.preserved
    /\ dirs' = st.dirs
    /\ files' = st.files
    /\ tars' = st.tars

VolInit ==
    /\ volumes = {}
    /\ volumeCache = EmptyMap
    /\ volumeCacheInfo = EmptyMap
    /\ preserved = 0
    /\ \E base \in BOOLEAN :
         /\ dirs = [d \in Dirs |-> IF base /\ d = pA THEN BaseMeta ELSE Absent]
         /\ files = [f \in Files |->
                       IF base /\ f = FileOf(pA) THEN "base" ELSE NoContent]
    /\ tars = EmptyMap
    /\ volLast = [op |-> "init", err |-> "nil", arg |-> <<>>, calls |-> <<>>]
    /\ volHist = [targeted |-> {}, copied |-> {}, n |-> 0]

\* The stage goes on calling while no call has returned an error (Execute
\* returns at the first error of a step, 910-913 and 961-964).
StageRunning == volHist.n < MaxOps /\ volLast.err = "nil"

Preserve(path) ==
    /\ StageRunning
    /\ LET r  == PreserveOn(StageState, path)
           rp == IF Covers(volumes, path) THEN TrimSep(path)
                 ELSE ResolveSymlink(path)
       IN  /\ SetStage(r.st)
           /\ volLast' = [op |-> "preserve", arg |-> path, calls |-> <<>>,
                          err |-> IF r.err THEN "error" ELSE "nil"]
           /\ volHist' =
                IF r.err THEN [volHist EXCEPT !.n = @ + 1]
                ELSE [volHist EXCEPT !.n = @ + 1, !.targeted = @ \ {rp}]
    /\ UNCHANGED buildVars

Copy(dest) ==
    /\ StageRunning
    /\ IF dest[Len(dest)] = "/" THEN TRUE ELSE dirs[dest] # Absent
    /\ SetStage(CopyOn(StageState, dest))
    /\ volLast' = [op |-> "copy", err |-> "nil", arg |-> dest,
                   calls |-> <<>>]
    /\ volHist' =
         [volHist EXCEPT
            !.n = @ + 1,
            !.targeted = @ \cup {v \in volumes : Targets(dest, v)},
            !.copied = IF \E v \in volumes : Targets(dest, v)
                       THEN @ \cup {AddTarget(dest)} ELSE @]
    /\ UNCHANGED buildVars

Run(e, fails) ==
    /\ StageRunning
    /\ fails.save <= Cardinality(DOMAIN volumeCache)
    /\ fails.restore <= Cardinality(DOMAIN volumeCache)
    /\ fails.save # 0 => ~fails.run /\ fails.restore = 0
    /\ \E so \in Orders(DOMAIN volumeCache), ro \in Orders(DOMAIN volumeCache) :
         LET r == RunOn(StageState, e, fails, so, ro)
         IN  /\ SetStage(r.st)
             /\ volLast' = [op |-> "run", err |-> r.err, arg |-> e.path,
                            calls |-> r.calls]
    /\ volHist' = [volHist EXCEPT !.n = @ + 1]
    /\ UNCHANGED buildVars

VolNext ==
    \/ \E path \in PreserveArgs : Preserve(path)
    \/ \E dest \in CopyDests : Copy(dest)
    \/ \E e \in RunEffects, fails \in Fails : Run(e, fails)

----------------------------------------------------------------------------
(* Dockerfiles, images and containers *)

\* The two literals of getCreatedBy (1098, 1100)
ShC == <<"/", "b", "i", "n", "/", "s", "h", " ", "-", "c", " ">>
Nop == <<"#", "(", "n", "o", "p", ")", " ">>

\* Instructions as the parser hands them over: node.Value, node.Original,
\* the arguments (the node.Next list) and node.Flags.  "RUN a" is a substring of "RUN ab".
RunA  == [value |-> "run", original |-> <<"R", "U", "N", " ", "a">>,
          args |-> << <<"a">> >>, flags |-> <<>>]
RunAB == [value |-> "run", original |-> <<"R", "U", "N", " ", "a", "b">>,
          args |-> << <<"a", "b">> >>, flags |-> <<>>]
CopyF == [value |-> "copy",
          original |-> <<"C", "O", "P", "Y", " ", "f", " ", "/", "d">>,
          args |-> << <<"f">>, <<"/", "d">> >>, flags |-> <<>>]
Instrs == {RunA, RunAB, CopyF}

\* The files of the context directory
ContextFiles == { <<"f">> }

\* strconv.Itoa and the failure of strconv.Atoi
Digits == <<"0", "1", "2", "3", "4", "5", "6", "7", "8", "9">>
RECURSIVE Itoa(_)
Itoa(n) == IF n < 10 THEN <<Digits[n + 1]>>
           ELSE Itoa(n \div 10) \o <<Digits[(n % 10) + 1]>>
AtoiFails(str) ==
    LET body == IF Len(str) > 0 /\ str[1] \in {"+", "-"} THEN Tail(str)
                ELSE str
    IN  ~(/\ Len(body) > 0
          /\ \A k \in 1..Len(body) : \E d \in 1..Len(Digits) : body[k] = Digits[d])

\* The name of the base image, the AS name of the stage at a position and
\* the output name of the build (options.Output)
BaseName == <<"b", "a", "s", "e">>
AsName(position) == <<"s">> \o Itoa(position)
Output == <<"o", "u", "t">>

\* A stage of the Dockerfile: stage.Name is the AS name, or the position as
\* a numeric string for a stage without an AS clause (700)
SeqsUpTo(S, n) == UNION {[1..k -> S] : k \in 0..n}
StageShapes(instrs) ==
    {[named |-> nm, from |-> BaseName, children |-> c] :
        nm \in BOOLEAN, c \in SeqsUpTo(instrs, MaxSteps)}
Stage(shape, position) ==
    [name |-> IF ~shape.named THEN Itoa(position)
              ELSE IF "as" \in DOMAIN shape THEN shape.as
              ELSE AsName(position),
     position |-> position,
     from |-> shape.from,
     children |-> shape.children]

\* Image ids: the empty id "" and the id of the base image in the store
NoImage == 0
BaseImage == 1
\* A layer id is derived from the chain of diffs below it; a diff is the
\* sequence of instructions that were run in the container.
BaseLayer == << << <<"b">> >> >>
Parent(layer) == SubSeq(layer, 1, Len(layer) - 1)
BaseStore ==
    (BaseImage :> [topLayer |-> BaseLayer,
                   history |-> <<[createdBy |-> <<"b">>, created |-> 0]>>])

\* The CreatedBy of a builder on which SetCreatedBy has not been called
DefaultCreatedBy == <<"/", "b", "i", "n", "/", "s", "h">>
Empty == <<>>

\* A created-by line without the #(nop) mark, which the claim about the
\* created-by lines has to tell from getCreatedBy
getCreatedByNoNop(node) ==
    IF node.value = "run"
    THEN ShC \o SubSeq(node.original, 5, Len(node.original))
    ELSE ShC \o node.original

\* getCreatedBy (1096-1101)
getCreatedBy(node) ==
    IF node.value = "run"
    THEN ShC \o SubSeq(node.original, 5, Len(node.original))
    ELSE ShC \o Nop \o node.original

\* historyMatches (1107-1120): walks children and history from their tails;
\* history[i] with i < 0 is an index out of range, a run-time panic.
RECURSIVE historyWalk(_, _, _)
historyWalk(children, history, j) ==
    IF j = 0 THEN "true"
    ELSE LET i == Len(history) - (Len(children) - j)
             instruction ==
                 IF children[j].value = "run"
                 THEN SubSeq(children[j].original, 5, Len(children[j].original))
                 ELSE children[j].original
         IN  IF i < 1 THEN "panic"
             ELSE IF ~Contains(history[i].createdBy, instruction) THEN "false"
             ELSE historyWalk(children, history, j - 1)
\* A comparison that accepts every history, which the claim about cache hits
\* has to tell from historyMatches
historyMatchesAnything(children, history) == "true"
historyMatches(children, history) == historyWalk(children, history, Len(children))

\* getFilesToCopy (1125-1142): every argument but the last, globbed in the
\* context directory
Glob(pattern) == IF pattern \in ContextFiles THEN {pattern} ELSE {}
\* The two URL schemes of 1129, 1159, 494 and 1464
Http  == <<"h", "t", "t", "p", ":", "/", "/">>
Https == <<"h", "t", "t", "p", "s", ":", "/", "/">>
IsURL(str) == HasPrefix(str, Http) \/ HasPrefix(str, Https)
getFilesToCopy(node) ==
    UNION {IF IsURL(node.args[k]) THEN {node.args[k]} ELSE Glob(node.args[k]) :
              k \in 1..(Len(node.args) - 1)}

\* historyTime.Format(time.RFC3339Nano) (1174) and its parse in
\* resolveModifiedTime: the text keeps the nanoseconds
FormatRFC3339Nano(t) == [layout |-> "RFC3339Nano", text |-> Itoa(t)]
RECURSIVE ParseDigits(_)
ParseDigits(str) ==
    IF Len(str) = 0 THEN 0
    ELSE 10 * ParseDigits(SubSeq(str, 1, Len(str) - 1))
         + (CHOOSE d \in 0..9 : Digits[d + 1] = str[Len(str)])
ParseRFC3339Nano(formatted) == ParseDigits(formatted.text)
\* resolveModifiedTime: whether the file is newer than the history time
resolveModifiedTime(item, historyTime, mtime) ==
    mtime > ParseRFC3339Nano(historyTime)

\* urlContentModified (1188-1204) for a response that carries Last-Modified:
\* whether the content is newer than the history time
urlContentModified(url, historyTime, mtime) == mtime > historyTime

\* A check that never looks at the files, which the claim about modified
\* sources has to tell from copiedFilesMatch
copiedFilesAlwaysMatch(node, historyTime, mtime) == TRUE

\* copiedFilesMatch (1148-1183)
copiedFilesMatch(node, historyTime, mtime) ==
    IF node.value # "add" /\ node.value # "copy" THEN TRUE
    ELSE \A item \in getFilesToCopy(node) :
            IF IsURL(item) THEN ~urlContentModified(item, historyTime, mtime)
            ELSE ~resolveModifiedTime(item, FormatRFC3339Nano(historyTime), mtime)

\* layerExists (1041-1076): the images whose top layer's parent is the last
\* entry of b.topLayers, whose history matches and whose copied files match.
\* store.Images() fixes no order the code relies on, so any of them may be
\* the one returned; "" is returned when there is none.
Examined(imgs, tops) ==
    {id \in DOMAIN imgs : Parent(imgs[id].topLayer) = tops[Len(tops)]}
CacheCandidates(imgs, tops, children, mtime) ==
    {id \in Examined(imgs, tops) :
        /\ historyMatches(children, imgs[id].history) = "true"
        /\ copiedFilesMatch(children[Len(children)],
                            imgs[id].history[Len(imgs[id].history)].created,
                            mtime)}
layerExistsPanics(imgs, tops, children) ==
    \E id \in Examined(imgs, tops) :
        historyMatches(children, imgs[id].history) = "panic"
layerExists(imgs, tops, children, mtime) ==
    IF CacheCandidates(imgs, tops, children, mtime) = {} THEN {NoImage}
    ELSE CacheCandidates(imgs, tops, children, mtime)

----------------------------------------------------------------------------
(* The store, Prepare, Commit and Build's cleanup closure *)

Range(f) == {f[x] : x \in DOMAIN f}

\* A container on top of the base image whatever image is asked for, which
\* the claim about the container that follows a commit has to tell from
\* NewContainer
NewContainerFromBase(imgs, id) ==
    [image |-> BaseImage, topLayer |-> imgs[BaseImage].topLayer,
     history |-> imgs[BaseImage].history,
     work |-> <<>>, createdBy |-> DefaultCreatedBy]

\* buildah.NewBuilder (740): a working container on top of an image
NewContainer(imgs, id) ==
    [image |-> id, topLayer |-> imgs[id].topLayer, history |-> imgs[id].history,
     work |-> <<>>, createdBy |-> DefaultCreatedBy]

\* A Prepare that leaves b.topLayers alone, and one that appends the top
\* layer of the base image whatever image the container is on, which the
\* claims about topLayers have to tell from PrepareTopLayers
TopLayersKept(tops, imgs, id) == tops
TopLayersOfBase(tops, imgs, id) == Append(tops, imgs[BaseImage].topLayer)
\* Prepare (804-807): builder.TopLayer, the top layer of the image the new
\* container is on, is appended to b.topLayers
PrepareTopLayers(tops, imgs, id) == Append(tops, imgs[id].topLayer)

\* Prepare (737-740): an AS name of an earlier stage stands for its image;
\* any other name is looked up as an image, and only the base image exists
ResolveFrom(map, from) ==
    IF from \in DOMAIN map THEN map[from]
    ELSE IF from = BaseName THEN BaseImage ELSE NoImage

\* An instruction that is processed twice, which the claim about the steps
\* of a layered build has to tell from Dispatch
DispatchTwice(ctr, node) ==
    [ctr EXCEPT !.work = Append(Append(@, node.original), node.original)]
\* ib.Run (910, 961): the instruction changes the working container
Dispatch(ctr, node) == [ctr EXCEPT !.work = Append(@, node.original)]

\* Commit (1206-1316): SetCreatedBy only for a non-empty createdBy (1216);
\* the image gets one more layer and one more history entry
CommittedBy(ctr, createdBy) == IF createdBy # Empty THEN createdBy ELSE ctr.createdBy
CommitImage(ctr, createdBy, now) ==
    [topLayer |-> Append(ctr.topLayer, ctr.work),
     history |-> Append(ctr.history,
                        [createdBy |-> CommittedBy(ctr, createdBy),
                         created |-> now])]

\* startStage (268-287): the new StageExecutor and its keys in b.stages.
\* s.mountPoint (801) is the root of the working container, named here by
\* the container's id; 0 before the first Prepare.
NewStageExecutor(name, index, output) ==
    [name |-> name, index |-> index, output |-> output, builder |-> 0,
     mountPoint |-> 0, containerIDs |-> <<>>]
startStage(map, name, index, from, k) ==
    LET m1 == Put(Put(map, name, k), from, k)
    IN  IF Itoa(index) # name THEN Put(m1, Itoa(index), k) ELSE m1

\* A cleanup that deletes nothing, which the claim about working containers
\* has to tell from cleanup
cleanupDeletesNothing(x, o, map) ==
    [se |-> x.se, containers |-> x.containers, images |-> x.images,
     cleanupStages |-> {}, cleanupImages |-> <<>>, err |-> FALSE,
     dels |-> {}, imageDels |-> <<>>]

\* A cleanup for which an image that is still used by a container is an
\* error whatever the options, which the claim about the errors of cleanup
\* has to tell from cleanup
cleanupInUseIsAnError(x, o, map) ==
    LET Broken(what, id) == [what |-> what, id |-> id] \in x.broken
        owned   == {x.se[k].builder : k \in x.cleanupStages} \ {0}
        c1      == Restrict(x.containers,
                       {id \in DOMAIN x.containers :
                           id \notin owned \/ Broken("container", id)})
        se1     == [k \in DOMAIN x.se |->
                       IF k \in x.cleanupStages
                       THEN [x.se[k] EXCEPT !.builder = 0] ELSE x.se[k]]
        swept   == IF o.removeIntermediateCtrs
                   THEN UNION {Range(se1[k].containerIDs) : k \in Range(map)}
                   ELSE {}
        c2      == Restrict(c1, {id \in DOMAIN c1 :
                                   id \notin swept \/ Broken("container", id)})
        se2     == [k \in DOMAIN se1 |->
                       IF o.removeIntermediateCtrs /\ k \in Range(map)
                       THEN [se1[k] EXCEPT !.containerIDs = <<>>] ELSE se1[k]]
        InUse(id) == \E c \in DOMAIN c2 : c2[c].image = id
        queued  == Range(x.cleanupImages)
        n       == Len(x.cleanupImages)
        ImageErr(id) == IF id \notin DOMAIN x.images THEN "other"
                        ELSE IF InUse(id) THEN "in use"
                        ELSE IF Broken("image", id) THEN "other"
                        ELSE "nil"
        removed == {id \in queued : ImageErr(id) = "nil"}
        calls   == {[what |-> "container", id |-> id, by |-> "Delete",
                     err |-> IF id \in DOMAIN x.containers
                                  /\ ~Broken("container", id)
                             THEN "nil" ELSE "other"] : id \in owned}
                     \cup {[what |-> "container", id |-> id,
                            by |-> "DeleteContainer",
                            err |-> IF id \in DOMAIN c1
                                         /\ ~Broken("container", id)
                                    THEN "nil" ELSE "other"] : id \in swept}
                     \cup {[what |-> "image", id |-> id, by |-> "DeleteImage",
                            err |-> ImageErr(id)] : id \in queued}
        lastErr == \E d \in calls :
                      \/ d.err = "other"
                      \/ d.err = "in use"
    IN  [se |-> se2, containers |-> c2,
         images |-> Restrict(x.images, DOMAIN x.images \ removed),
         cleanupStages |-> {}, cleanupImages |-> <<>>, err |-> lastErr,
         dels |-> calls,
         imageDels |-> [i \in 1..n |-> x.cleanupImages[n - i + 1]]]

\* The cleanup closure of Build (1330-1364) on
\* x = [se, containers, images, cleanupStages, cleanupImages, broken];
\* broken are the containers and images that the store fails to delete.
\* dels are the calls of stage.Delete on a stage that has a builder (1335),
\* of store.DeleteContainer (1631) and of store.DeleteImage (1355) it makes,
\* each with its outcome; imageDels are the images in the order of the calls
\* of DeleteImage (1353-1355).
cleanup(x, o, map) ==
    LET Broken(what, id) == [what |-> what, id |-> id] \in x.broken
        owned   == {x.se[k].builder : k \in x.cleanupStages} \ {0}
        c1      == Restrict(x.containers,
                       {id \in DOMAIN x.containers :
                           id \notin owned \/ Broken("container", id)})
        se1     == [k \in DOMAIN x.se |->
                       IF k \in x.cleanupStages
                       THEN [x.se[k] EXCEPT !.builder = 0] ELSE x.se[k]]
        swept   == IF o.removeIntermediateCtrs
                   THEN UNION {Range(se1[k].containerIDs) : k \in Range(map)}
                   ELSE {}
        c2      == Restrict(c1, {id \in DOMAIN c1 :
                                   id \notin swept \/ Broken("container", id)})
        se2     == [k \in DOMAIN se1 |->
                       IF o.removeIntermediateCtrs /\ k \in Range(map)
                       THEN [se1[k] EXCEPT !.containerIDs = <<>>] ELSE se1[k]]
        InUse(id) == \E c \in DOMAIN c2 : c2[c].image = id
        queued  == Range(x.cleanupImages)
        n       == Len(x.cleanupImages)
        ImageErr(id) == IF id \notin DOMAIN x.images THEN "other"
                        ELSE IF InUse(id) THEN "in use"
                        ELSE IF Broken("image", id) THEN "other"
                        ELSE "nil"
        removed == {id \in queued : ImageErr(id) = "nil"}
        calls   == {[what |-> "container", id |-> id, by |-> "Delete",
                     err |-> IF id \in DOMAIN x.containers
                                  /\ ~Broken("container", id)
                             THEN "nil" ELSE "other"] : id \in owned}
                     \cup {[what |-> "container", id |-> id,
                            by |-> "DeleteContainer",
                            err |-> IF id \in DOMAIN c1
                                         /\ ~Broken("container", id)
                                    THEN "nil" ELSE "other"] : id \in swept}
                     \cup {[what |-> "image", id |-> id, by |-> "DeleteImage",
                            err |-> ImageErr(id)] : id \in queued}
        lastErr == \E d \in calls :
                      \/ d.err = "other"
                      \/ d.err = "in use" /\ o.forceRmIntermediateCtrs
    IN  [se |-> se2, containers |-> c2,
         images |-> Restrict(x.images, DOMAIN x.images \ removed),
         cleanupStages |-> {}, cleanupImages |-> <<>>, err |-> lastErr,
         dels |-> calls,
         imageDels |-> [i \in 1..n |-> x.cleanupImages[n - i + 1]]]

CleanupState ==
    [se |-> se, containers |-> containers, images |-> images,
     cleanupStages |-> cleanupStages, cleanupImages |-> cleanupImages,
     broken |-> {}]

----------------------------------------------------------------------------
(* COPY --from (Execute 881-895, Copy 482-518) *)

FromFlag == <<"-", "-", "f", "r", "o", "m">>

\* The words of a line, joined by single spaces
RECURSIVE JoinWords(_)
JoinWords(words) ==
    IF Len(words) = 0 THEN <<>>
    ELSE IF Len(words) = 1 THEN words[1]
    ELSE words[1] \o <<" ">> \o JoinWords(Tail(words))

\* strings.Split(n, "="): the pieces between the "=" of n
RECURSIVE SplitEq(_)
SplitEq(n) ==
    IF \A k \in 1..Len(n) : n[k] # "=" THEN <<n>>
    ELSE LET k == CHOOSE i \in 1..Len(n) :
                      n[i] = "=" /\ \A j \in 1..(i - 1) : n[j] # "="
         IN  <<SubSeq(n, 1, k - 1)>> \o SplitEq(SubSeq(n, k + 1, Len(n)))

\* COPY --from=x src /d as the parser hands it over
CopyWord == <<"C", "O", "P", "Y">>
CopyFrom(x, src) ==
    [value |-> "copy",
     original |-> JoinWords(<<CopyWord, FromFlag \o <<"=">> \o x, src,
                              <<"/", "d">> >>),
     args |-> <<src, <<"/", "d">> >>,
     flags |-> << FromFlag \o <<"=">> \o x >>]

\* Execute 884-895: s.copyFrom is the context directory, or the mountpoint
\* of the stage the first --from flag of a COPY/ADD names; no such stage is
\* an error.  kind tells the context directory from a stage's root.
FromFlags(node) ==
    SelectSeq(node.flags, LAMBDA n : Contains(n, FromFlag))
copyFromOf(map, ses, node) ==
    IF node.value \in {"copy", "add"} /\ Len(FromFlags(node)) > 0
    THEN LET arr == SplitEq(FromFlags(node)[1])
         IN  IF arr[2] \in DOMAIN map
             THEN [err |-> FALSE, kind |-> "stage",
                   root |-> ses[map[arr[2]]].mountPoint]
             ELSE [err |-> TRUE, kind |-> "none", root |-> 0]
    ELSE [err |-> FALSE, kind |-> "context", root |-> 0]

\* imagebuilder.Copy of a COPY instruction: From is the value of --from
CopyOf(node) ==
    [From |-> IF Len(FromFlags(node)) > 0
              THEN SplitEq(FromFlags(node)[1])[2] ELSE <<>>,
     Src |-> SubSeq(node.args, 1, Len(node.args) - 1),
     Dest |-> node.args[Len(node.args)],
     Download |-> node.value = "add"]

\* A source resolution that never looks at the stage's index
SourceOfAnyStage(map, ses, index, copy, src) ==
    IF IsURL(src) THEN [kind |-> "url", root |-> 0, path |-> src]
    ELSE IF Len(copy.From) > 0
    THEN IF copy.From \in DOMAIN map
         THEN [kind |-> "stage", root |-> ses[map[copy.From]].mountPoint,
               path |-> src]
         ELSE [kind |-> "error", root |-> 0, path |-> src]
    ELSE [kind |-> "context", root |-> 0, path |-> src]
\* Copy 493-505: where one source is taken from
SourceOf(map, ses, index, copy, src) ==
    IF IsURL(src) THEN [kind |-> "url", root |-> 0, path |-> src]
    ELSE IF Len(copy.From) > 0
    THEN IF copy.From \in DOMAIN map /\ ses[map[copy.From]].index < index
         THEN [kind |-> "stage", root |-> ses[map[copy.From]].mountPoint,
               path |-> src]
         ELSE [kind |-> "error", root |-> 0, path |-> src]
    ELSE [kind |-> "context", root |-> 0, path |-> src]
Sources(map, ses, index, copy) ==
    [k \in 1..Len(copy.Src) |-> SourceOf(map, ses, index, copy, copy.Src[k])]
\* Copy returns an error before s.builder.Add (499)
CopyErr(map, ses, index, node) ==
    /\ node.value \in {"copy", "add"}
    /\ \E k \in 1..(Len(node.args) - 1) :
          Sources(map, ses, index, CopyOf(node))[k].kind = "error"

----------------------------------------------------------------------------
(* Build (1320-1445), one action per stretch of it *)

EmptyLog ==
    [commits |-> {}, hits |-> {}, ran |-> {}, working |-> EmptyMap,
     made |-> {}, executed |-> {}, results |-> <<>>, adds |-> {},
     deferred |-> <<>>, dels |-> <<>>, queries |-> {}]

\* The nil error
NoErr == "nil"

\* builtinAllowedBuildArgs (254-263)
builtinAllowedBuildArgs ==
    {<<"H", "T", "T", "P", "_", "P", "R", "O", "X", "Y">>,
     <<"h", "t", "t", "p", "_", "p", "r", "o", "x", "y">>,
     <<"H", "T", "T", "P", "S", "_", "P", "R", "O", "X", "Y">>,
     <<"h", "t", "t", "p", "s", "_", "p", "r", "o", "x", "y">>,
     <<"F", "T", "P", "_", "P", "R", "O", "X", "Y">>,
     <<"f", "t", "p", "_", "p", "r", "o", "x", "y">>,
     <<"N", "O", "_", "P", "R", "O", "X", "Y">>,
     <<"n", "o", "_", "p", "r", "o", "x", "y">>}

\* Execute 872-879: the names an ARG instruction declares,
\* strings.SplitN(Arg, "=", 2)[0] of each of its arguments
SplitN2(str) ==
    IF \A k \in 1..Len(str) : str[k] # "=" THEN <<str>>
    ELSE LET k == CHOOSE i \in 1..Len(str) :
                      str[i] = "=" /\ \A j \in 1..(i - 1) : str[j] # "="
         IN  <<SubSeq(str, 1, k - 1), SubSeq(str, k + 1, Len(str))>>
Declared(node) ==
    IF node.value = "arg"
    THEN {SplitN2(node.args[k])[1] : k \in 1..Len(node.args)}
    ELSE {}

\* sort.Strings (1421): byte-wise lexicographic order; the bytes that occur
\* in the names used here, in ascending order
Less(x, y) ==
    LET Bytes == <<"F", "H", "N", "O", "P", "R", "S", "T", "X", "Y", "_",
                   "a", "b", "f", "h", "n", "o", "p", "r", "s", "t", "x", "y">>
        Byte(ch) == CHOOSE i \in 1..Len(Bytes) : Bytes[i] = ch
    IN  \E k \in 1..(Len(x) + 1) :
            /\ k <= Len(y)
            /\ \A j \in 1..(k - 1) : x[j] = y[j]
            /\ k > Len(x) \/ Byte(x[k]) < Byte(y[k])
\* The names in the order the map's iteration happens to give them, here
\* the descending one, which the claim about the warning has to tell from
\* SortStrings
RECURSIVE Unsorted(_)
Unsorted(S) ==
    IF S = {} THEN <<>>
    ELSE LET m == CHOOSE x \in S : \A y \in S : x = y \/ Less(y, x)
         IN  <<m>> \o Unsorted(S \ {m})
RECURSIVE SortStrings(_)
SortStrings(S) ==
    IF S = {} THEN <<>>
    ELSE LET m == CHOOSE x \in S : \A y \in S : x = y \/ Less(x, y)
         IN  <<m>> \o SortStrings(S \ {m})

\* The initial store and an Executor that has not started
BuildInit ==
    /\ stages = EmptyMap /\ imageMap = EmptyMap /\ topLayers = <<>>
    /\ cleanupStages = {} /\ cleanupImages = <<>> /\ imageID = NoImage
    /\ se = <<>> /\ dockerfile = <<>>
    /\ pc = "idle" /\ stageIndex = 1 /\ stepIndex = 1
    /\ checkForLayers = TRUE /\ buildErr = NoErr
    /\ containers = EmptyMap /\ images = BaseStore /\ nextID = BaseImage
    /\ clock = 0 /\ srcMtime = 0 /\ buildNo = 1 /\ blog = EmptyLog
    /\ unusedArgs = {} /\ out = <<>>

\* Build is called on stages chosen as it reaches them, with no target
NoFrontEnd ==
    /\ pathList = <<>> /\ target = <<>> /\ dockerfiles = <<>> /\ parsed = <<>>
    /\ fpc = "off"

\* Build returns the error e: "return "", nil, err"
Abort(e) == pc' = "return" /\ buildErr' = e /\ imageID' = NoImage

\* BuildDockerfiles (1532-1548): NewExecutor, then Build up to its loop
StartBuild ==
    /\ pc = "idle"
    /\ stages' = EmptyMap /\ imageMap' = EmptyMap /\ topLayers' = <<>>
    /\ cleanupStages' = {} /\ cleanupImages' = <<>> /\ imageID' = NoImage
    /\ se' = <<>>
    /\ pc' = IF numStages = 0 THEN "done" ELSE "stage"
    /\ buildErr' = IF numStages = 0 THEN "no stages" ELSE NoErr
    /\ stageIndex' = 1 /\ stepIndex' = 1 /\ checkForLayers' = TRUE
    /\ UNCHANGED <<inputVars, storeVars, buildNo, blog>>
    /\ unusedArgs' = userArgs \ builtinAllowedBuildArgs
    /\ UNCHANGED <<userArgs, out>>
    /\ UNCHANGED <<volVars, frontVars>>

\* Build 1367-1395: startStage, Prepare and the first registration in
\* cleanupStages; Execute starts (854-856)
StartStage(shape, fail) ==
    /\ pc = "stage"
    /\ LET st     == Stage(shape, stageIndex - 1)
           output == IF stageIndex = numStages THEN Output ELSE Empty
           base   == ResolveFrom(imageMap, st.from)
           id     == nextID + 1
           new    == NewStageExecutor(st.name, st.position, output)
       IN  /\ dockerfile' = Append(dockerfile, st)
           /\ stages' = startStage(stages, st.name, st.position, st.from, stageIndex)
           /\ IF fail \/ base \notin DOMAIN images
              THEN /\ se' = Append(se, new)
                   /\ Abort("prepare")
                   /\ UNCHANGED <<topLayers, cleanupStages, storeVars, blog,
                                  stepIndex, checkForLayers>>
              ELSE /\ se' = Append(se, [new EXCEPT !.builder = id,
                                                   !.mountPoint = id])
                   /\ containers' = Put(containers, id, NewContainer(images, base))
                   /\ nextID' = id
                   /\ topLayers' = PrepareTopLayers(topLayers, images, base)
                   /\ cleanupStages' =
                        IF opts.forceRmIntermediateCtrs \/ ~opts.layers
                        THEN cleanupStages \cup {stageIndex} ELSE cleanupStages
                   /\ pc' = IF Len(st.children) = 0 THEN "post" ELSE "exec"
                   /\ imageID' = IF Len(st.children) = 0 THEN NoImage ELSE imageID
                   /\ stepIndex' = 1 /\ checkForLayers' = TRUE
                   /\ blog' = [blog EXCEPT
                                 !.working = Put(@, stageIndex, id),
                                 !.made = @ \cup {id},
                                 !.executed = IF Len(st.children) = 0
                                              THEN @ \cup {stageIndex} ELSE @]
                   /\ UNCHANGED <<images, clock, buildErr>>
    /\ UNCHANGED <<opts, numStages, srcMtime, imageMap, cleanupImages,
                   stageIndex, buildNo>>
    /\ UNCHANGED <<volVars, frontVars, argVars>>

\* What one iteration of Execute's loop (858-989) may change
Cur ==
    [pc |-> pc, imageID |-> imageID, buildErr |-> buildErr,
     containers |-> containers, images |-> images, nextID |-> nextID,
     clock |-> clock, se |-> se, topLayers |-> topLayers,
     checkForLayers |-> checkForLayers, stepIndex |-> stepIndex, blog |-> blog]
SetCur(r) ==
    /\ pc' = r.pc /\ imageID' = r.imageID /\ buildErr' = r.buildErr
    /\ containers' = r.containers /\ images' = r.images /\ nextID' = r.nextID
    /\ clock' = r.clock /\ se' = r.se /\ topLayers' = r.topLayers
    /\ checkForLayers' = r.checkForLayers /\ stepIndex' = r.stepIndex
    /\ blog' = r.blog
Aborted(r, e) == [r EXCEPT !.pc = "return", !.buildErr = e, !.imageID = NoImage]

\* Where Execute is
Here == [build |-> buildNo, stage |-> stageIndex, step |-> stepIndex]
Children == dockerfile[stageIndex].children
LastStep == stepIndex = Len(Children)
\* A test with the Layers option the wrong way round, which the claim about
\* the single-layer build has to tell from Flat
FlatWithLayers == opts.layers /\ opts.useCache
\* The single-layer build of 909-915
Flat == ~opts.layers /\ opts.useCache
\* A lookup that goes on after a miss, which the claim about the hits
\* being a prefix of the steps has to tell from Probes
ProbesAfterMiss == ~Flat /\ opts.useCache
\* 935: whether this iteration looks for a cached image
Probes == ~Flat /\ checkForLayers /\ opts.useCache

\* 925: the name every commit of Execute uses
CommitName == Output

\* ib.Run of a COPY/ADD calls Copy, which calls s.builder.Add with the
\* sources it resolved (513)
Added(node) ==
    IF node.value \in {"copy", "add"}
    THEN {[at |-> Here, From |-> CopyOf(node).From,
           index |-> se[stageIndex].index,
           sources |-> Sources(stages, se, se[stageIndex].index, CopyOf(node))]}
    ELSE {}
StepErr(fail) ==
    fail = "run" \/ CopyErr(stages, se, se[stageIndex].index, Children[stepIndex])

\* 909-915: the instruction is processed, nothing is committed
ExecuteFlat(fail) ==
    LET s  == se[stageIndex]
        r0 == [Cur EXCEPT !.blog.ran = @ \cup {Here}]
    IN  IF StepErr(fail) THEN Aborted(r0, "step")
        ELSE [r0 EXCEPT
                !.containers[s.builder] = Dispatch(@, Children[stepIndex]),
                !.blog.adds = @ \cup Added(Children[stepIndex]),
                !.pc = IF LastStep THEN "post" ELSE "exec",
                !.imageID = IF LastStep THEN NoImage ELSE @,
                !.stepIndex = IF LastStep THEN @ ELSE @ + 1,
                !.blog.executed = IF LastStep THEN @ \cup {stageIndex} ELSE @]

\* 950-955: a cached image for the last instruction is copied under the name
ExecuteCopy(fail, cacheID) ==
    LET r0 == [Cur EXCEPT
                 !.blog.hits = @ \cup
                     {[at |-> Here, id |-> cacheID,
                       children |-> SubSeq(Children, 1, stepIndex),
                       history |-> images[cacheID].history,
                       mtime |-> srcMtime]}]
    IN  IF fail = "copy" THEN Aborted(r0, "copy image")
        ELSE [r0 EXCEPT
                !.pc = "post", !.imageID = cacheID,
                !.blog.commits = @ \cup
                    {[at |-> Here, kind |-> "copy", name |-> CommitName,
                      id |-> cacheID, ctr |-> 0]},
                !.blog.executed = @ \cup {stageIndex}]

\* 957-988: process and commit on a miss, reuse the image on a hit, then
\* prepare the next container
ExecuteCommit(fail, cacheID) ==
    LET s      == se[stageIndex]
        node   == Children[stepIndex]
        hit    == cacheID # NoImage
        r0     == IF hit
                  THEN [Cur EXCEPT
                          !.blog.hits = @ \cup
                              {[at |-> Here, id |-> cacheID,
                                children |-> SubSeq(Children, 1, stepIndex),
                                history |-> images[cacheID].history,
                                mtime |-> srcMtime]}]
                  ELSE [Cur EXCEPT !.checkForLayers = FALSE,
                                   !.blog.ran = @ \cup {Here}]
        ran    == [r0 EXCEPT !.containers[s.builder] = Dispatch(@, node),
                             !.blog.adds = @ \cup Added(node)]
        newImg == nextID + 1
        done   == [ran EXCEPT
                     !.containers[s.builder].createdBy = getCreatedBy(node),
                     !.images = Put(@, newImg,
                                    CommitImage(ran.containers[s.builder],
                                                getCreatedBy(node), clock + 1)),
                     !.nextID = newImg,
                     !.clock = @ + 1,
                     !.blog.commits = @ \cup
                         {[at |-> Here, kind |-> "step", name |-> CommitName,
                           id |-> newImg, ctr |-> s.builder]}]
        r1     == IF hit THEN r0 ELSE done
        imgID  == IF hit THEN cacheID ELSE newImg
        r2     == [r1 EXCEPT !.se[stageIndex].containerIDs = Append(@, s.builder)]
        cid    == r2.nextID + 1
    IN  IF ~hit /\ StepErr(fail) THEN Aborted(r0, "step")
        ELSE IF ~hit /\ fail = "commit" THEN Aborted(ran, "step commit")
        ELSE IF LastStep
             THEN [r1 EXCEPT !.pc = "post", !.imageID = imgID,
                             !.blog.executed = @ \cup {stageIndex}]
        ELSE IF fail = "prepare" \/ imgID \notin DOMAIN r2.images
             THEN Aborted(r2, "prepare next")
        ELSE [r2 EXCEPT
                !.containers = Put(@, cid, NewContainer(r2.images, imgID)),
                !.se[stageIndex].builder = cid,
                !.se[stageIndex].mountPoint = cid,
                !.topLayers = PrepareTopLayers(@, r2.images, imgID),
                !.nextID = cid,
                !.stepIndex = @ + 1,
                !.blog.working = Put(@, stageIndex, cid),
                !.blog.made = @ \cup {cid}]

\* The failures an iteration can meet
Failures(cacheID) ==
    IF Flat THEN {"none", "run"}
    ELSE IF cacheID # NoImage /\ LastStep THEN {"none", "copy"}
    ELSE (IF cacheID # NoImage THEN {"none"} ELSE {"none", "run", "commit"})
         \cup (IF LastStep THEN {} ELSE {"prepare"})

\* Whether the search of layerExists ends in the panic of historyMatches:
\* it may when an examined image's history is too short, and it does when
\* no examined image is returned before that one is reached
Panics(fail, cacheID) ==
    /\ Probes
    /\ layerExistsPanics(images, topLayers, SubSeq(Children, 1, stepIndex))
    /\ fail = "none"
    /\ cacheID = NoImage

\* One iteration of the loop of Execute (858-989); after the last one
\* Execute returns to Build (991-995, 1396-1401).  A --from that names no
\* stage ends it before anything else is done (888-891).
ExecStep(fail, cacheID) ==
    /\ pc = "exec"
    /\ cacheID \in (IF Probes
                    THEN layerExists(images, topLayers,
                                     SubSeq(Children, 1, stepIndex), srcMtime)
                    ELSE {NoImage})
    /\ fail \in Failures(cacheID)
    /\ LET Queried(r) == IF Probes
                         THEN [r EXCEPT !.blog.queries = @ \cup {Here}]
                         ELSE r
       IN  IF copyFromOf(stages, se, Children[stepIndex]).err
           THEN SetCur(Aborted(Cur, "no stage"))
           ELSE IF Panics(fail, cacheID)
           THEN SetCur(Queried([Cur EXCEPT !.pc = "panic"]))
           ELSE IF Flat THEN SetCur(ExecuteFlat(fail))
           ELSE IF cacheID # NoImage /\ LastStep
                THEN SetCur(Queried(ExecuteCopy(fail, cacheID)))
           ELSE SetCur(Queried(ExecuteCommit(fail, cacheID)))
    /\ UNCHANGED <<inputVars, stages, imageMap, cleanupStages, cleanupImages,
                   stageIndex, buildNo>>
    /\ unusedArgs' = unusedArgs \ Declared(Children[stepIndex])
    /\ UNCHANGED <<userArgs, out>>
    /\ UNCHANGED <<volVars, frontVars>>

\* A Build that deleted the working container of a stage as soon as the
\* stage had executed, which the claim about when containers are deleted has
\* to tell from StageDone
StageDoneDeletes(fail) ==
    /\ pc = "post"
    /\ LET st    == dockerfile[stageIndex]
           s     == se[stageIndex]
           named == AtoiFails(st.name)
           newImg == nextID + 1
       IN  /\ fail => named
           /\ cleanupStages' =
                IF ~opts.forceRmIntermediateCtrs /\ opts.removeIntermediateCtrs
                THEN cleanupStages \cup {stageIndex} ELSE cleanupStages
           /\ IF ~named
              THEN /\ pc' = IF stageIndex < numStages THEN "stage" ELSE "finish"
                   /\ stageIndex' = IF stageIndex < numStages
                                    THEN stageIndex + 1 ELSE stageIndex
                   /\ containers' = Restrict(containers,
                                           DOMAIN containers \ {s.builder})
                   /\ UNCHANGED <<imageID, buildErr, imageMap, cleanupImages,
                                  images, nextID, clock, blog>>
              ELSE IF fail
              THEN /\ Abort("stage commit")
                   /\ UNCHANGED <<stageIndex, imageMap, cleanupImages,
                                  storeVars, blog>>
              ELSE /\ images' = Put(images, newImg,
                                    CommitImage(containers[s.builder], Empty,
                                                clock + 1))
                   /\ nextID' = newImg
                   /\ clock' = clock + 1
                   /\ imageID' = newImg
                   /\ imageMap' = Put(imageMap, st.name, newImg)
                   /\ cleanupImages' = Append(cleanupImages, newImg)
                   /\ blog' = [blog EXCEPT !.commits = @ \cup
                                 {[at |-> [build |-> buildNo,
                                           stage |-> stageIndex, step |-> 0],
                                   kind |-> "stage", name |-> s.output,
                                   id |-> newImg, ctr |-> s.builder]}]
                   /\ pc' = IF stageIndex < numStages THEN "stage" ELSE "finish"
                   /\ stageIndex' = IF stageIndex < numStages
                                    THEN stageIndex + 1 ELSE stageIndex
                   /\ containers' = Restrict(containers,
                                           DOMAIN containers \ {s.builder})
                   /\ UNCHANGED buildErr
    /\ UNCHANGED <<inputVars, stages, topLayers, se, stepIndex,
                   checkForLayers, buildNo>>
    /\ UNCHANGED <<volVars, frontVars, argVars>>

\* Build 1402-1414, after Execute has succeeded: the second registration in
\* cleanupStages and, for a stage with a non-numeric name, the commit under
\* the stage's output name, its entry in imageMap and in cleanupImages
StageDone(fail) ==
    /\ pc = "post"
    /\ LET st    == dockerfile[stageIndex]
           s     == se[stageIndex]
           named == AtoiFails(st.name)
           newImg == nextID + 1
       IN  /\ fail => named
           /\ cleanupStages' =
                IF ~opts.forceRmIntermediateCtrs /\ opts.removeIntermediateCtrs
                THEN cleanupStages \cup {stageIndex} ELSE cleanupStages
           /\ IF ~named
              THEN /\ pc' = IF stageIndex < numStages THEN "stage" ELSE "finish"
                   /\ stageIndex' = IF stageIndex < numStages
                                    THEN stageIndex + 1 ELSE stageIndex
                   /\ UNCHANGED <<imageID, buildErr, imageMap, cleanupImages,
                                  storeVars, blog>>
              ELSE IF fail
              THEN /\ Abort("stage commit")
                   /\ UNCHANGED <<stageIndex, imageMap, cleanupImages,
                                  storeVars, blog>>
              ELSE /\ images' = Put(images, newImg,
                                    CommitImage(containers[s.builder], Empty,
                                                clock + 1))
                   /\ nextID' = newImg
                   /\ clock' = clock + 1
                   /\ imageID' = newImg
                   /\ imageMap' = Put(imageMap, st.name, newImg)
                   /\ cleanupImages' = Append(cleanupImages, newImg)
                   /\ blog' = [blog EXCEPT !.commits = @ \cup
                                 {[at |-> [build |-> buildNo,
                                           stage |-> stageIndex, step |-> 0],
                                   kind |-> "stage", name |-> s.output,
                                   id |-> newImg, ctr |-> s.builder]}]
                   /\ pc' = IF stageIndex < numStages THEN "stage" ELSE "finish"
                   /\ stageIndex' = IF stageIndex < numStages
                                    THEN stageIndex + 1 ELSE stageIndex
                   /\ UNCHANGED <<containers, buildErr>>
    /\ UNCHANGED <<inputVars, stages, topLayers, se, stepIndex,
                   checkForLayers, buildNo>>
    /\ UNCHANGED <<volVars, frontVars, argVars>>

\* 1428-1429
singleLineDockerfile == numStages < 2 /\ Len(dockerfile[1].children) < 1
\* Layers ignored for a one-line Dockerfile only, which the claim about the
\* final commit of a flat build has to tell from ignoreLayers
ignoreLayersOneLine == singleLineDockerfile
ignoreLayers == singleLineDockerfile \/ (~opts.layers /\ opts.useCache)

\* What the store may fail to delete in the call of cleanup at 1440: nothing,
\* or one container, or one of the queued images
DeleteFailures ==
    {{}} \cup {{[what |-> "container", id |-> i]} : i \in DOMAIN containers}
         \cup {{[what |-> "image", id |-> i]} : i \in Range(cleanupImages)}

\* Build 1416-1444: the commit of a build that ignores layers, then the
\* call of cleanup
Finish(fail, broken) ==
    /\ pc = "finish"
    /\ fail => ignoreLayers
    /\ broken \in DeleteFailures
    /\ LET s      == se[numStages]
           newImg == nextID + 1
           imgs   == IF ignoreLayers
                     THEN Put(images, newImg,
                              CommitImage(containers[s.builder], Empty, clock + 1))
                     ELSE images
           c      == cleanup([CleanupState EXCEPT !.images = imgs,
                                                  !.broken = broken],
                             opts, stages)
       IN  IF fail
           THEN /\ Abort("final commit")
                /\ UNCHANGED <<se, cleanupStages, cleanupImages, storeVars, blog>>
           ELSE /\ se' = c.se
                /\ containers' = c.containers
                /\ images' = c.images
                /\ cleanupStages' = c.cleanupStages
                /\ cleanupImages' = c.cleanupImages
                /\ nextID' = IF ignoreLayers THEN newImg ELSE nextID
                /\ clock' = IF ignoreLayers THEN clock + 1 ELSE clock
                /\ blog' = [blog EXCEPT
                              !.commits =
                                  IF ignoreLayers
                                  THEN @ \cup
                                   {[at |-> [build |-> buildNo,
                                             stage |-> numStages, step |-> 0],
                                     kind |-> "final", name |-> Output,
                                     id |-> newImg, ctr |-> s.builder]}
                                  ELSE @,
                              !.dels = Append(@, [build |-> buildNo,
                                                  calls |-> c.dels,
                                                  images |-> c.imageDels])]
                /\ pc' = "return"
                /\ buildErr' = IF c.err THEN "cleanup" ELSE NoErr
                /\ imageID' = IF c.err THEN NoImage
                              ELSE IF ignoreLayers THEN newImg ELSE imageID
    /\ UNCHANGED <<inputVars, stages, imageMap, topLayers, stageIndex,
                   stepIndex, checkForLayers, buildNo>>
    /\ out' = IF unusedArgs # {}
              THEN Append(out, [build |-> buildNo,
                                unusedList |-> SortStrings(unusedArgs)])
              ELSE out
    /\ UNCHANGED <<userArgs, unusedArgs>>
    /\ UNCHANGED <<volVars, frontVars>>

\* A deferred call whose error becomes the error of the function
DeferredReplaces(err, cleanupErr) == IF cleanupErr THEN "cleanup" ELSE err
\* "defer cleanup()" (1365): what cleanup returns is dropped
Deferred(err, cleanupErr) == err

\* The deferred call of cleanup (1365) when Build returns
Return ==
    /\ pc = "return"
    /\ LET c == cleanup(CleanupState, opts, stages)
       IN  /\ se' = c.se
           /\ containers' = c.containers
           /\ images' = c.images
           /\ cleanupStages' = c.cleanupStages
           /\ cleanupImages' = c.cleanupImages
           /\ buildErr' = Deferred(buildErr, c.err)
           /\ blog' = [blog EXCEPT
                         !.results = Append(@,
                            [dockerfile |-> dockerfile, imageID |-> imageID,
                             err |-> buildErr' # NoErr, mtime |-> srcMtime]),
                         !.deferred = Append(@, [before |-> buildErr,
                                                 cleanupErr |-> c.err]),
                         !.dels = Append(@, [build |-> buildNo,
                                             calls |-> c.dels,
                                             images |-> c.imageDels])]
    /\ pc' = "done"
    /\ UNCHANGED <<inputVars, stages, imageMap, topLayers, imageID, stageIndex,
                   stepIndex, checkForLayers, nextID, clock, buildNo>>
    /\ UNCHANGED <<volVars, frontVars, argVars>>

\* A file of the context directory is modified between two builds
Touch ==
    /\ pc = "done" /\ buildNo = 1
    /\ srcMtime < clock
    /\ srcMtime' = clock + 1
    /\ clock' = clock + 1
    /\ UNCHANGED <<opts, numStages, dockerfile, execVars, ctlVars, containers,
                   images, nextID, buildNo, blog>>
    /\ UNCHANGED <<volVars, frontVars, argVars>>

\* BuildDockerfiles is called again, on the store the first call left
NextBuild ==
    /\ pc = "done" /\ buildNo = 1
    /\ buildNo' = buildNo + 1
    /\ pc' = "idle"
    /\ dockerfile' = <<>>
    /\ buildErr' = NoErr
    /\ blog' = [blog EXCEPT !.working = EmptyMap, !.made = {}, !.executed = {}]
    /\ UNCHANGED <<opts, numStages, srcMtime, execVars, stageIndex, stepIndex,
                   checkForLayers, storeVars>>
    /\ UNCHANGED <<volVars, frontVars, argVars>>

----------------------------------------------------------------------------
(* BuildDockerfiles (1450-1549) and processCopyFrom (1554-1622).  A
   Dockerfile is the sequence of its lines and a line the sequence of its
   words; single spaces and newlines are the only white space. *)

FromWord == <<"F", "R", "O", "M">>
\* What (?i)as matches among the words used here
AsWords == {<<"A", "S">>, <<"a", "s">>}

\* The elements of the sequences of a sequence, in order: the words of a
\* Dockerfile, or the lines of several Dockerfiles
RECURSIVE Flatten(_)
Flatten(seqs) ==
    IF seqs = <<>> THEN <<>> ELSE Head(seqs) \o Flatten(Tail(seqs))

\* The loop of processCopyFrom (1568-1620).  copyRE, fromRE and asRE are
\* matched on the whole text of a file: the pieces that follow their
\* matches start with the word after "COPY --from=", after "FROM" and after
\* "as"; the piece before the first FROM starts with the first word of a
\* file that does not start with FROM.  A file with no COPY --from is passed
\* on before its names are loaded (1573-1576).  A file for which
\* ioutil.ReadAll returns an error is left out (1569, 1619).
RECURSIVE processCopyFromLoop(_, _, _, _)
processCopyFromLoop(dfiles, fromMap, asMap, newDockerfiles) ==
    IF dfiles = <<>> THEN newDockerfiles
    ELSE IF Head(dfiles).unreadable
    THEN processCopyFromLoop(Tail(dfiles), fromMap, asMap, newDockerfiles)
    ELSE
      LET dfileString == Head(dfiles).text
          w      == Flatten(dfileString)
          flag   == FromFlag \o <<"=">>
          copies == SelectSeq([k \in 1..Len(w) |-> k],
                              LAMBDA k : /\ k < Len(w) /\ w[k] = CopyWord
                                         /\ HasPrefix(w[k + 1], flag))
          trimmedFrom(i) ==
              SubSeq(w[copies[i] + 1], Len(flag) + 1, Len(w[copies[i] + 1]))
          froms  == {w[k + 1] : k \in {j \in 1..(Len(w) - 1) : w[j] = FromWord}}
                      \cup (IF Len(w) > 0 /\ w[1] # FromWord THEN {w[1]} ELSE {})
          ases   == {w[k + 1] : k \in {j \in 2..(Len(w) - 1) : w[j] \in AsWords}}
          fm     == fromMap \cup froms
          am     == asMap \cup ases
          need   == SelectSeq([i \in 1..Len(copies) |-> trimmedFrom(i)],
                              LAMBDA x : x \notin fm /\ x \notin am /\ AtoiFails(x))
          added  == [i \in 1..Len(need) |-> << <<FromWord, need[i]>> >>]
      IN  IF Len(copies) = 0
          THEN processCopyFromLoop(Tail(dfiles), fromMap, asMap,
                                   Append(newDockerfiles, dfileString))
          ELSE processCopyFromLoop(Tail(dfiles), fm, am,
                                   (newDockerfiles \o added) \o <<dfileString>>)
processCopyFrom(dfiles) == processCopyFromLoop(dfiles, {}, {}, <<>>)

\* errors.Wrapf: "If err is nil, Wrapf returns nil"
Wrapf(err, message) == IF err = NoErr THEN NoErr ELSE message

\* imagebuilder.ParseDockerfile: the node of a line that is not a FROM
LineNode(line) ==
    [value |-> IF line[1] = CopyWord THEN "copy"
               ELSE IF line[1] = <<"R", "U", "N">> THEN "run" ELSE "arg",
     original |-> JoinWords(line),
     args |-> SelectSeq(Tail(line), LAMBDA x : ~HasPrefix(x, <<"-", "-">>)),
     flags |-> SelectSeq(Tail(line), LAMBDA x : HasPrefix(x, <<"-", "-">>))]

\* imagebuilder.NewStages (1537) on the lines of all the files, each of
\* which starts with a FROM: one stage for each FROM line, with the
\* instructions up to the next one, named by "AS name" if the line has it
NewStages(lines) ==
    LET starts == SelectSeq([k \in 1..Len(lines) |-> k],
                            LAMBDA k : lines[k][1] = FromWord)
        last(i) == IF i < Len(starts) THEN starts[i + 1] - 1 ELSE Len(lines)
        named(i) == Len(lines[starts[i]]) = 4 /\ lines[starts[i]][3] \in AsWords
    IN  [i \in 1..Len(starts) |->
            [named |-> named(i),
             as |-> IF named(i) THEN lines[starts[i]][4] ELSE <<>>,
             from |-> lines[starts[i]][2],
             children |-> [j \in 1..(last(i) - starts[i]) |->
                              LineNode(lines[starts[i] + j])]]]

\* A search that takes every stage when none has the name, which the claim
\* about an unknown target has to tell from ThroughTarget
ThroughTargetOrAll(stgs, name) ==
    LET found == {i \in 1..Len(stgs) : Stage(stgs[i], i - 1).name = name}
    IN  IF found = {} THEN [ok |-> TRUE, stages |-> stgs]
        ELSE [ok |-> TRUE,
              stages |-> SubSeq(stgs, 1, CHOOSE i \in found :
                                            \A j \in found : i <= j)]
\* imagebuilder.Stages.ThroughTarget (1542): the stages up to the first one
\* that has the name
ThroughTarget(stgs, name) ==
    LET found == {i \in 1..Len(stgs) : Stage(stgs[i], i - 1).name = name}
    IN  IF found = {} THEN [ok |-> FALSE, stages |-> <<>>]
        ELSE [ok |-> TRUE,
              stages |-> SubSeq(stgs, 1, CHOOSE i \in found :
                                            \A j \in found : i <= j)]

\* BuildDockerfiles up to its call of Build (1450-1547): the files are read
\* in order, and the first empty one ends the call, with errors.Errorf for a
\* remote file (1470-1473) and with errors.Wrapf of the nil err for a local
\* one (1500-1503); then processCopyFrom, dockerfiles[0] (1516), which is an
\* index out of range when no file is left, the parser and the target
BuildDockerfiles ==
    /\ fpc = "start" /\ pc = "idle"
    /\ fpc' = "called"
    /\ LET empty   == {k \in 1..Len(pathList) : pathList[k].text = <<>>}
           first   == CHOOSE k \in empty : \A j \in empty : k <= j
           readErr == IF Len(pathList) = 0 THEN "no dockerfiles"
                      ELSE IF pathList[first].remote THEN "no contents"
                      ELSE Wrapf(NoErr, "no contents")
           new     == processCopyFrom(pathList)
           all     == NewStages(Flatten(new))
           through == IF target # <<>> THEN ThroughTarget(all, target)
                      ELSE [ok |-> TRUE, stages |-> all]
       IN  IF Len(pathList) = 0 \/ empty # {}
           THEN /\ pc' = "done" /\ buildErr' = readErr
                /\ UNCHANGED <<dockerfiles, parsed, numStages>>
           ELSE IF new = <<>>
           THEN /\ pc' = "panic"
                /\ UNCHANGED <<dockerfiles, parsed, numStages, buildErr>>
           ELSE /\ dockerfiles' = new
                /\ IF through.ok
                   THEN /\ parsed' = through.stages
                        /\ numStages' = Len(through.stages)
                        /\ UNCHANGED <<pc, buildErr>>
                   ELSE /\ pc' = "done" /\ buildErr' = "target"
                        /\ UNCHANGED <<parsed, numStages>>
    /\ UNCHANGED <<opts, dockerfile, srcMtime, execVars, stageIndex, stepIndex,
                   checkForLayers, storeVars, buildNo, blog, pathList, target,
                   argVars>>
    /\ UNCHANGED volVars

----------------------------------------------------------------------------
(* Specifications *)

\* The Executor is not running while the stage executor's volume calls are
\* explored, and the other way round
VolQuiet ==
    /\ volumes = {} /\ volumeCache = EmptyMap /\ volumeCacheInfo = EmptyMap
    /\ preserved = 0
    /\ dirs = [d \in Dirs |-> Absent] /\ files = [f \in Files |-> NoContent]
    /\ tars = EmptyMap
    /\ volLast = [op |-> "init", err |-> "nil", arg |-> <<>>, calls |-> <<>>]
    /\ volHist = [targeted |-> {}, copied |-> {}, n |-> 0]
DefaultOptions ==
    [layers |-> TRUE, useCache |-> TRUE, removeIntermediateCtrs |-> TRUE,
     forceRmIntermediateCtrs |-> FALSE]

\* One stage and its calls of Preserve, Copy and Run
InitVol ==
    /\ VolInit
    /\ BuildInit
    /\ NoFrontEnd /\ userArgs = {}
    /\ opts = DefaultOptions /\ numStages = 1
SpecVol == InitVol /\ [][VolNext]_vars

\* One build of any Dockerfile under any options, with failures of Prepare,
\* of a step, of a commit and of the copy of a cached image
InitBuild ==
    /\ VolQuiet
    /\ BuildInit
    /\ NoFrontEnd /\ userArgs = {}
    /\ opts \in [layers : BOOLEAN, useCache : BOOLEAN,
                 removeIntermediateCtrs : BOOLEAN,
                 forceRmIntermediateCtrs : BOOLEAN]
    /\ numStages \in 0..MaxStages
NextBuildOnce ==
    \/ StartBuild
    \/ \E shape \in StageShapes({RunA}), fail \in BOOLEAN : StartStage(shape, fail)
    \/ \E fail \in {"none", "run", "commit", "prepare", "copy"},
          cacheID \in DOMAIN images \cup {NoImage} : ExecStep(fail, cacheID)
    \/ \E fail \in BOOLEAN : StageDone(fail)
    \/ \E fail \in BOOLEAN : Finish(fail, {})
    \/ Return
SpecBuild == InitBuild /\ [][NextBuildOnce]_vars

\* Two layered builds, both with the cache or both with NoCache, one after
\* the other on the same store, of single-stage Dockerfiles; nothing fails
InitCache ==
    /\ VolQuiet
    /\ BuildInit
    /\ NoFrontEnd /\ userArgs = {}
    /\ opts \in {[DefaultOptions EXCEPT !.useCache = u] : u \in BOOLEAN}
    /\ numStages = 1
NextCache ==
    \/ StartBuild
    \/ \E shape \in StageShapes(Instrs) : StartStage(shape, FALSE)
    \/ \E cacheID \in DOMAIN images \cup {NoImage} : ExecStep("none", cacheID)
    \/ StageDone(FALSE)
    \/ Finish(FALSE, {})
    \/ Return
    \/ Touch
    \/ NextBuild
SpecCache == InitCache /\ [][NextCache]_vars

\* One build of a Dockerfile whose stages copy from other stages by AS name,
\* by index and by a name no stage has, from a local file and from a URL;
\* layered or not, with or without the cache
FromNames == {AsName(0), Itoa(1), <<"x">>}
FromSrcs == {<<"f">>, Http \o <<"u">>}
CopyFromInstrs == {CopyFrom(x, src) : x \in FromNames, src \in FromSrcs}
FromShapes ==
    {[named |-> nm, from |-> BaseName, children |-> c] :
        nm \in BOOLEAN,
        c \in {<<>>, <<RunA>>, <<RunA, RunA>>, <<CopyF>>}
                \cup {<<i>> : i \in CopyFromInstrs}}
InitFrom ==
    /\ VolQuiet
    /\ BuildInit
    /\ NoFrontEnd /\ userArgs = {}
    /\ opts \in [layers : BOOLEAN, useCache : BOOLEAN,
                 removeIntermediateCtrs : {TRUE},
                 forceRmIntermediateCtrs : {FALSE}]
    /\ numStages \in 1..MaxStages
NextFrom ==
    \/ StartBuild
    \/ \E shape \in FromShapes : StartStage(shape, FALSE)
    \/ \E cacheID \in DOMAIN images \cup {NoImage} : ExecStep("none", cacheID)
    \/ StageDone(FALSE)
    \/ Finish(FALSE, {})
    \/ Return
SpecFrom == InitFrom /\ [][NextFrom]_vars

\* One build, under any options and with failures, of a Dockerfile whose
\* stages are built FROM the base image or FROM the first stage's AS name
StageFroms == {BaseName, AsName(0)}
ChainShapes ==
    {[named |-> nm, from |-> f, children |-> c] :
        nm \in BOOLEAN, f \in StageFroms,
        c \in {<<>>, <<RunA>>, <<RunA, RunA>>}}
InitStages ==
    /\ VolQuiet
    /\ BuildInit
    /\ NoFrontEnd /\ userArgs = {}
    /\ opts \in [layers : BOOLEAN, useCache : BOOLEAN,
                 removeIntermediateCtrs : BOOLEAN,
                 forceRmIntermediateCtrs : BOOLEAN]
    /\ numStages \in 1..MaxStages
NextStages ==
    \/ StartBuild
    \/ \E shape \in ChainShapes, fail \in BOOLEAN : StartStage(shape, fail)
    \/ \E fail \in {"none", "run", "commit", "prepare", "copy"},
          cacheID \in DOMAIN images \cup {NoImage} : ExecStep(fail, cacheID)
    \/ \E fail \in BOOLEAN : StageDone(fail)
    \/ \E fail \in BOOLEAN, broken \in DeleteFailures : Finish(fail, broken)
    \/ Return
SpecStages == InitStages /\ [][NextStages]_vars

\* Two builds of the same Dockerfile, one after the other on the same
\* store, given build arguments some of which its stages declare with ARG;
\* layered or not, with or without the cache
ArgA  == [value |-> "arg", original |-> <<"A", "R", "G", " ", "a">>,
          args |-> << <<"a">> >>, flags |-> <<>>]
ArgB1 == [value |-> "arg",
          original |-> <<"A", "R", "G", " ", "b", "=", "1">>,
          args |-> << <<"b", "=", "1">> >>, flags |-> <<>>]
ArgShapes ==
    {[named |-> FALSE, from |-> BaseName, children |-> c] :
        c \in {<<ArgA>>, <<RunA, ArgB1>>, <<RunA>>}}
UserArgs ==
    {{}, {<<"a">>}, {<<"h", "t", "t", "p", "_", "p", "r", "o", "x", "y">>},
     {<<"b">>, <<"a", "b">>, <<"a">>,
      <<"h", "t", "t", "p", "_", "p", "r", "o", "x", "y">>}}
InitArgs ==
    /\ VolQuiet
    /\ BuildInit
    /\ NoFrontEnd /\ userArgs \in UserArgs
    /\ opts \in [layers : BOOLEAN, useCache : BOOLEAN,
                 removeIntermediateCtrs : {TRUE},
                 forceRmIntermediateCtrs : {FALSE}]
    /\ numStages \in 1..MaxStages
NextArgs ==
    \/ StartBuild
    \/ \E shape \in ArgShapes :
          /\ IF buildNo = 1 THEN TRUE
             ELSE /\ stageIndex <= Len(blog.results[1].dockerfile)
                  /\ Stage(shape, stageIndex - 1) =
                       blog.results[1].dockerfile[stageIndex]
          /\ StartStage(shape, FALSE)
    \/ \E cacheID \in DOMAIN images \cup {NoImage} : ExecStep("none", cacheID)
    \/ StageDone(FALSE)
    \/ Finish(FALSE, {})
    \/ Return
    \/ NextBuild
SpecArgs == InitArgs /\ [][NextArgs]_vars

\* One call of BuildDockerfiles on up to MaxPaths files, local or remote,
\* some empty, some with COPY --from, with or without a target; nothing
\* fails in the build itself
Texts ==
    LET From(x)  == <<FromWord, x>>
        FromAs   == <<FromWord, BaseName, <<"A", "S">>, AsName(0)>>
        RunLine  == << <<"R", "U", "N">>, <<"a">> >>
        Copy_(x) == <<CopyWord, FromFlag \o <<"=">> \o x, <<"f">>, <<"/", "d">> >>
    IN  {<<>>,
         <<From(BaseName)>>,
         <<FromAs, RunLine>>,
         <<From(BaseName), Copy_(<<"x">>)>>,
         <<From(BaseName), Copy_(<<"x">>), Copy_(<<"y">>)>>,
         <<From(BaseName), Copy_(<<"x">>), From(<<"x">>)>>,
         <<From(BaseName), Copy_(AsName(0))>>,
         <<FromAs, From(BaseName), Copy_(AsName(0))>>,
         <<From(BaseName), From(BaseName), Copy_(Itoa(0))>>}
FrontPaths ==
    {[remote |-> FALSE, text |-> t, unreadable |-> FALSE] : t \in Texts}
        \cup {[remote |-> TRUE, text |-> t, unreadable |-> u] :
                 t \in {<<>>, <<<<FromWord, BaseName>>>>}, u \in BOOLEAN}
TargetNames == {<<>>, AsName(0), Itoa(1), <<"z">>}
InitFront ==
    /\ VolQuiet
    /\ BuildInit
    /\ pathList \in SeqsUpTo(FrontPaths, MaxPaths)
    /\ target \in TargetNames
    /\ dockerfiles = <<>> /\ parsed = <<>> /\ fpc = "start" /\ userArgs = {}
    /\ opts = DefaultOptions /\ numStages = 0
NextFront ==
    \/ BuildDockerfiles
    \/ fpc = "called" /\ StartBuild
    \/ \E shape \in {parsed[k] : k \in {stageIndex} \cap DOMAIN parsed} :
          StartStage(shape, FALSE)
    \/ \E cacheID \in DOMAIN images \cup {NoImage} : ExecStep("none", cacheID)
    \/ StageDone(FALSE)
    \/ Finish(FALSE, {})
    \/ Return
SpecFront == InitFront /\ [][NextFront]_vars

\* One layered build in a store that holds, next to the base image, one
\* image that was not built here: its top layer lies on the base image's and
\* its history is whatever its builder wrote, here nothing at all or the
\* created-by lines of some instructions.  store.Images() (1043) hands
\* layerExists every image of the store.
ForeignStores ==
    {Put(BaseStore, BaseImage + 1,
         [topLayer |-> Append(BaseLayer, << <<"x">> >>),
          history |-> [k \in 1..Len(c) |->
                          [createdBy |-> getCreatedBy(c[k]), created |-> 0]]]) :
        c \in SeqsUpTo({RunA, CopyF}, MaxSteps)}
InitLookup ==
    /\ VolQuiet
    /\ stages = EmptyMap /\ imageMap = EmptyMap /\ topLayers = <<>>
    /\ cleanupStages = {} /\ cleanupImages = <<>> /\ imageID = NoImage
    /\ se = <<>> /\ dockerfile = <<>>
    /\ pc = "idle" /\ stageIndex = 1 /\ stepIndex = 1
    /\ checkForLayers = TRUE /\ buildErr = NoErr
    /\ containers = EmptyMap
    /\ images \in ForeignStores /\ nextID = BaseImage + 1
    /\ clock = 0 /\ srcMtime = 0 /\ buildNo = 1 /\ blog = EmptyLog
    /\ unusedArgs = {} /\ out = <<>>
    /\ NoFrontEnd /\ userArgs = {}
    /\ opts = DefaultOptions
    /\ numStages = 1
NextLookup ==
    \/ StartBuild
    \/ \E shape \in StageShapes(Instrs) : StartStage(shape, FALSE)
    \/ \E cacheID \in DOMAIN images \cup {NoImage} : ExecStep("none", cacheID)
    \/ StageDone(FALSE)
    \/ Finish(FALSE, {})
    \/ Return
SpecLookup == InitLookup /\ [][NextLookup]_vars


----------------------------------------------------------------------------
(* Claims about the volume cache *)

\* What lies below directory v in the current file tree
TreeBelow(ds, fs, v) == Tar(ds, fs, v)

\* The volumes of the VolumeSet that no COPY/ADD has targeted since they
\* were preserved
Untargeted == volumes \ volHist.targeted

\* C1: for every preserved volume that no COPY/ADD has targeted since, every
\* RUN (successful or not) leaves the tree below the volume as it was
\* immediately before the RUN, and leaves the volume's root with the mode
\* and mtime captured at Preserve and owner 0.
C1_RunLeavesPreservedVolumes ==
    [][(volLast'.op = "run" /\ volHist'.n = volHist.n + 1) =>
          \A v \in Untargeted :
             /\ TreeBelow(dirs', files', v) = TreeBelow(dirs, files, v)
             /\ dirs'[v].mode = volumeCacheInfo[v].mode
             /\ dirs'[v].mtime = volumeCacheInfo[v].mtime
             /\ dirs'[v].uid = 0]_vars

\* C2: after every RUN, every file that a COPY/ADD wrote to a preserved
\* volume, or below one, still holds what the COPY/ADD wrote (unless it is
\* the file that this RUN's own command wrote or removed).
C2_CopiedContentSurvivesRun ==
    volLast.op = "run" =>
        \A f \in volHist.copied \ {volLast.arg} : files[f] = "copy"

\* C3: a volume that a COPY/ADD has targeted (destination the volume or a
\* path under it) has no volumeCache entry, hence no snapshot file and no
\* restore by a later RUN, until it is preserved again.
C3_TargetedVolumeHasNoCache ==
    \A v \in volumes \cap volHist.targeted : v \notin DOMAIN volumeCache

----------------------------------------------------------------------------
(* Claims about Build and its containers *)

\* The working container of stage k: the one its last successful Prepare made
Working(k) == blog.working[k]
Prepared == DOMAIN blog.working
Live == DOMAIN containers

C5_ForceRmDeletesEveryContainer ==
    (pc = "done" /\ opts.forceRmIntermediateCtrs) => blog.made \cap Live = {}

\* C6: a commit made after a non-final instruction of a stage, or made by a
\* non-final stage, uses the empty name; only the commit (or copy) for the
\* last instruction of the last stage gets the output name.
C6_OutputNameOnlyOnLastCommit ==
    \A c \in blog.commits :
        (/\ c.at.build = buildNo
         /\ \/ c.at.stage < numStages
            \/ /\ c.kind \in {"step", "copy"}
               /\ c.at.step < Len(dockerfile[c.at.stage].children))
        => c.name = Empty

\* C7: in the part of Build that follows a successful Execute, the commit
\* under the stage's name, the entry of imageMap and the entry of
\* cleanupImages are made exactly when the stage has a non-numeric name and
\* is not the final stage; for the final stage none of them is made.
C7_StageImageOnlyForNamedIntermediate ==
    [][pc = "post" =>
         IF AtoiFails(dockerfile[stageIndex].name) /\ stageIndex < numStages
         THEN \/ buildErr' # NoErr
              \/ /\ DOMAIN images' # DOMAIN images
                 /\ dockerfile[stageIndex].name \in DOMAIN imageMap'
                 /\ Len(cleanupImages') = Len(cleanupImages) + 1
         ELSE /\ images' = images
              /\ imageMap' = imageMap
              /\ cleanupImages' = cleanupImages]_vars

----------------------------------------------------------------------------
(* Claims about the layer cache *)

\* The text of an instruction that the history is searched for: the
\* instruction's original text, without "RUN " for a RUN
TextOf(node) ==
    IF node.value = "run" THEN SubSeq(node.original, 5, Len(node.original))
    ELSE node.original
\* The history entry paired with the j-th instruction, counting from the tail
Paired(h, j) == h.history[Len(h.history) - Len(h.children) + j]

Results == blog.results
\* The second build was given the Dockerfile and the files of the first,
\* which had succeeded, and the Dockerfile has instructions
SameBuildAgain ==
    /\ pc = "done" /\ Len(Results) = 2
    /\ ~Results[1].err
    /\ Results[2].dockerfile = Results[1].dockerfile
    /\ Results[2].mtime = Results[1].mtime
    /\ \A k \in DOMAIN Results[1].dockerfile :
          Len(Results[1].dockerfile[k].children) > 0

\* C9: a second run of the same layered build with the cache, on the store
\* the first run left and with unchanged inputs, dispatches no instruction,
\* commits no step and yields the image id of the first run.
C9_SecondBuildReusesEverything ==
    SameBuildAgain =>
        /\ \A r \in blog.ran : r.build # 2
        /\ \A c \in blog.commits : c.at.build = 2 => c.kind = "copy"
        /\ ~Results[2].err
        /\ Results[2].imageID = Results[1].imageID

\* C10: a COPY/ADD step is a cache hit only on an image whose last history
\* entry was created no earlier than the modification time of every local
\* source file, and once a step of a stage was not a hit no later step of
\* that stage is one.
C10_NoHitOnNewerSource ==
    \A h \in blog.hits :
        /\ h.children[Len(h.children)].value \in {"copy", "add"}
              => h.mtime <= h.history[Len(h.history)].created
        /\ \A r \in blog.ran :
              (r.build = h.at.build /\ r.stage = h.at.stage)
              => r.step > h.at.step

\* The source of a COPY was modified after the first build, and the second
\* build of the same Dockerfile has run the COPY and the step after it
C10_Witness ==
    /\ pc = "done" /\ Len(Results) = 2
    /\ Results[2].dockerfile = Results[1].dockerfile
    /\ Results[2].mtime > Results[1].mtime
    /\ Results[2].dockerfile[1].children = <<CopyF, RunA>>
    /\ \A i \in 1..2 : [build |-> 2, stage |-> 1, step |-> i] \in blog.ran

----------------------------------------------------------------------------
(* Claims about COPY --from and the stages map *)

\* The instruction Execute is at, and the stage its --from names
Node == Children[stepIndex]
Named == CopyOf(Node).From
Earlier ==
    /\ Named \in DOMAIN stages
    /\ se[stages[Named]].index < se[stageIndex].index
HasFrom == pc = "exec" /\ Node.value \in {"copy", "add"} /\ Len(Named) > 0
Failed == pc' = "return" /\ buildErr' # NoErr /\ blog'.adds = blog.adds

\* C11 as stated: a COPY --from=X calls builder.Add only when X resolves to
\* an earlier stage, every source is then taken under that stage's
\* mountpoint, and otherwise the step fails without a call of builder.Add
C11_CopyFromOnlyEarlierStage ==
    [][HasFrom =>
         IF Earlier
         THEN \A a \in blog'.adds \ blog.adds :
                 \A k \in 1..Len(a.sources) :
                    /\ a.sources[k].kind = "stage"
                    /\ a.sources[k].root = se[stages[Named]].mountPoint
         ELSE Failed]_vars

\* C11, amended: a --from that names no stage fails the step; a local source
\* is handed to builder.Add only from the current mountpoint of an earlier
\* stage; and a step with a local source that is not served from the cache
\* fails, without a call of builder.Add, when X names a stage that is not
\* earlier.  A URL source is handed over whatever X resolves to.
C11_LocalSourceOnlyFromEarlierStage ==
    [][HasFrom =>
         /\ Named \notin DOMAIN stages => Failed
         /\ \A a \in blog'.adds \ blog.adds :
               \A k \in 1..Len(a.sources) :
                  ~IsURL(a.sources[k].path) =>
                     /\ Earlier
                     /\ a.sources[k].kind = "stage"
                     /\ a.sources[k].root = se[stages[Named]].mountPoint
         /\ (/\ ~Earlier
             /\ \E k \in 1..Len(CopyOf(Node).Src) : ~IsURL(CopyOf(Node).Src[k])
             /\ blog'.hits = blog.hits) => Failed]_vars

\* A local file was copied from the root of the second working container of
\* an earlier stage, and the build succeeded
C11_Witness ==
    /\ pc = "done" /\ buildErr = NoErr
    /\ \E a \in blog.adds :
          /\ a.From = AsName(0) /\ a.index = 1
          /\ a.sources[1].kind = "stage"
          /\ a.sources[1].root = se[1].mountPoint
    /\ opts.layers /\ ~opts.useCache
    /\ dockerfile[1].children = <<RunA, RunA>>

\* The stages Build has started so far
Started == 1..Len(dockerfile)

\* C12 as stated: at every point of a build, for every stage started so far,
\* the keys of b.stages for its AS name, for the image it was built FROM and
\* for its decimal index all resolve to that stage
C12_ThreeKeysResolveToTheStage ==
    \A k \in Started :
        /\ dockerfile[k].name \in DOMAIN stages
        /\ stages[dockerfile[k].name] = k
        /\ dockerfile[k].from \in DOMAIN stages
        /\ stages[dockerfile[k].from] = k
        /\ Itoa(dockerfile[k].position) \in DOMAIN stages
        /\ stages[Itoa(dockerfile[k].position)] = k

----------------------------------------------------------------------------
(* Claims about errors *)

\* The errors of a stage: of its Prepare, of its Execute (a step, a step's
\* commit, the Prepare for the next step, the copy of a cached image, a
\* --from without a stage) and of Build's commits of it
StageErrs ==
    {"prepare", "step", "step commit", "prepare next", "copy image",
     "no stage", "stage commit", "final commit"}

\* What a step of Build does, and what state it is in, once a stage's error
\* is the error to return
AfterStageError ==
    buildErr \in StageErrs =>
        /\ dockerfile' = dockerfile
        /\ buildErr' = buildErr
        /\ imageID' = NoImage
        /\ pc = "return" /\ pc' = "done"
WithStageError ==
    buildErr \in StageErrs =>
        /\ imageID = NoImage
        /\ pc \in {"return", "done"}
        /\ pc = "done" =>
              /\ cleanupStages = {} /\ cleanupImages = <<>>
              /\ Len(blog.deferred) = 1
              /\ blog.deferred[1].before = buildErr

\* C14: once a stage's Prepare, Execute or commit has failed, no further
\* stage is started; Build returns that error and the empty image id; the
\* deferred cleanup has run and emptied its queues; and what cleanup returned
\* has not replaced the error
C14_StageErrorIsReturned == [][AfterStageError]_vars /\ []WithStageError

\* A step of the second stage failed, the deferred cleanup failed too, and
\* Build returned the step's error
C14_Witness ==
    /\ pc = "done" /\ buildErr = "step"
    /\ Len(dockerfile) = 2
    /\ blog.deferred[1].cleanupErr

----------------------------------------------------------------------------
(* Claims about the commits of Build *)

\* The commits of the build that has just returned without error
Commits == {c \in blog.commits : c.at.build = buildNo}
Succeeded == pc = "done" /\ buildErr = NoErr

\* C18: a build of a single stage that has only its FROM makes exactly one
\* commit, under the output name, whatever Layers and NoCache are and
\* whether the stage has an AS name or not.
C18_SingleFromOneCommit ==
    (Succeeded /\ numStages = 1 /\ dockerfile[1].children = <<>>)
        => \E c \in Commits : Commits = {c} /\ c.name = Output

\* C19: when every stage has succeeded in flat mode (no Layers, cache
\* enabled), Build commits the working container of the last stage under
\* the output name after the last stage has executed, and the image id it
\* returns is the id of that commit.
FinalCommit ==
    (pc = "finish" /\ Flat /\ buildErr' = NoErr)
        => /\ blog.executed = 1..numStages
           /\ \E c \in blog'.commits \ blog.commits :
                 /\ c.kind = "final" /\ c.name = Output
                 /\ c.ctr = Working(numStages)
                 /\ c.id = imageID'
                 /\ c.id \notin DOMAIN images
                 /\ images'[c.id] =
                      CommitImage(containers[c.ctr], Empty, clock')
ReturnsFinalCommit ==
    (Succeeded /\ Flat)
        => \E c \in Commits :
              /\ c.kind = "final" /\ c.name = Output /\ c.id = imageID
              /\ \A d \in Commits : d.id <= c.id
C19_FlatBuildFinalCommit == [][FinalCommit]_vars /\ []ReturnsFinalCommit
C19_Witness ==
    /\ Succeeded /\ Flat /\ numStages = 2
    /\ Len(dockerfile[2].children) = 2
    /\ \E c \in Commits : c.kind = "final" /\ c.id = imageID

\* The commits of working containers made by the step being taken
NewCommits == {c \in blog'.commits \ blog.commits : c.ctr # 0}
Replaced(c) ==
    LET now == se'[c.at.stage].builder
    IN  /\ now # c.ctr
        /\ now \notin DOMAIN containers
        /\ now \in DOMAIN containers'
        /\ containers'[now].image = c.id
        /\ containers'[now].topLayer = images'[c.id].topLayer
        /\ containers'[now].history = images'[c.id].history
        /\ containers'[now].work = <<>>
NeverMutated ==
    \A c \in blog.commits :
        (c.ctr \in DOMAIN containers /\ c.ctr \in DOMAIN containers')
            => containers'[c.ctr] = containers[c.ctr]

\* C20: after every successful commit of a stage's working container the
\* working container is replaced by a fresh container on the committed
\* image, and a committed container is never changed afterwards.
C20_EveryCommitReplacesContainer ==
    [][(\A c \in NewCommits : Replaced(c)) /\ NeverMutated]_vars

\* C20 as the code has it: the working container is replaced after the
\* commit that follows an instruction which is not the last of its stage,
\* provided the next container can be prepared; after the commit of the last
\* instruction, and after the commits Build makes for a stage and for the
\* whole build, the container is kept.  A committed container is never
\* changed afterwards.
C20_CommitBeforeNextStepReplacesContainer ==
    [][/\ \A c \in NewCommits :
             (c.kind = "step" /\ pc' = "exec") <=> Replaced(c)
       /\ \A c \in NewCommits :
             (c.kind = "step" /\ pc' # "exec")
                 => /\ pc' \in {"post", "return"}
                    /\ se'[c.at.stage].builder = c.ctr
       /\ NeverMutated]_vars
C20_Witness ==
    /\ pc = "exec" /\ stepIndex = 2
    /\ \E c \in Commits :
          /\ c.kind = "step" /\ c.at.stage = stageIndex /\ c.at.step = 1
          /\ c.ctr # se[stageIndex].builder
          /\ c.ctr \in DOMAIN containers
          /\ containers[se[stageIndex].builder].image = c.id

----------------------------------------------------------------------------
(* Claims about build arguments *)

\* The names the ARG instructions of the Dockerfile declare, and the
\* warnings the current build has printed
DeclaredByStages ==
    UNION {UNION {Declared(dockerfile[i].children[j]) :
                    j \in 1..Len(dockerfile[i].children)} :
             i \in 1..Len(dockerfile)}
NeverUsed == (userArgs \ builtinAllowedBuildArgs) \ DeclaredByStages
Warnings == SelectSeq(out, LAMBDA w : w.build = buildNo)
Ascending(list) ==
    \A i \in 1..Len(list) : \A j \in (i + 1)..Len(list) : Less(list[i], list[j])

\* C17: on a build whose stages all succeed the warning about unused build
\* arguments is printed at most once; it lists, in sorted order, exactly the
\* names given by the user that are not in the built-in allow-list and that
\* no ARG instruction of any stage declares, whether the instruction was
\* served from the cache or not; it is not printed when there is no such
\* name.
C17_UnusedArgsWarnedOnceSorted ==
    /\ Len(Warnings) <= 1
    /\ Succeeded =>
         IF NeverUsed = {} THEN Warnings = <<>>
         ELSE /\ Len(Warnings) = 1
              /\ Range(Warnings[1].unusedList) = NeverUsed
              /\ Ascending(Warnings[1].unusedList)
C17_Witness ==
    /\ Succeeded /\ buildNo = 2 /\ numStages = 2
    /\ \E h \in blog.hits :
          h.at.build = 2 /\ dockerfile[h.at.stage].children[h.at.step] = ArgA
    /\ Len(Warnings) = 1
    /\ Warnings[1].unusedList = << <<"a", "b">>, <<"b">> >>

----------------------------------------------------------------------------
(* Claims about BuildDockerfiles *)

\* The words of the Dockerfiles processCopyFrom returned, in order, and the
\* positions of the COPY words that have a --from
Stream == Flatten(Flatten(dockerfiles))
WithFrom ==
    {k \in 1..(Len(Stream) - 1) :
        Stream[k] = CopyWord /\ HasPrefix(Stream[k + 1], FromFlag \o <<"=">>)}
FromOf(k) == SubSeq(Stream[k + 1], Len(FromFlag) + 2, Len(Stream[k + 1]))

\* C13: in what processCopyFrom returns, every COPY --from=X whose X is not
\* an integer comes after a "FROM X" or an "AS X" of the concatenated
\* Dockerfiles, so that X names a stage started before the stage that copies.
C13_FromPrecedesEveryCopyFrom ==
    \A k \in WithFrom :
        AtoiFails(FromOf(k))
            => \E j \in 1..(k - 2) :
                  /\ Stream[j] = FromWord \/ Stream[j] \in AsWords
                  /\ Stream[j + 1] = FromOf(k)

\* C15: BuildDockerfiles returns an error and starts no build when one of
\* the Dockerfiles is empty, be it a remote one whose response has content
\* length 0 or a local regular file of size 0.
C15_EmptyDockerfileIsAnError ==
    (fpc = "called" /\ \E k \in 1..Len(pathList) : pathList[k].text = <<>>)
        => /\ buildErr # NoErr
           /\ pc = "done" /\ dockerfile = <<>> /\ blog.made = {}

\* The names of the stages of the Dockerfiles that were parsed
Read == fpc = "called" /\ Len(dockerfiles) > 0
StageNames ==
    LET all == NewStages(Flatten(dockerfiles))
    IN  {Stage(all[i], i - 1).name : i \in 1..Len(all)}

\* C16: when the Dockerfiles have been parsed and options.Target is a name
\* that no stage of them has, BuildDockerfiles returns an error and no stage
\* is prepared or executed: no container is created, nothing is committed.
C16_UnknownTargetFailsBeforeAnyStage ==
    (Read /\ target # <<>> /\ target \notin StageNames)
        => /\ pc = "done" /\ buildErr # NoErr
           /\ dockerfile = <<>> /\ se = <<>>
           /\ blog.made = {} /\ containers = EmptyMap
           /\ blog.commits = {} /\ images = BaseStore
C16_Witness ==
    /\ Read /\ target = <<"z">> /\ Len(dockerfiles) = 3
    /\ StageNames = {AsName(0), Itoa(1), Itoa(2)}
    /\ pc = "done" /\ buildErr = "target"

----------------------------------------------------------------------------
(* Claims about the VolumeSet and the keys of volumeCache *)

\* The call the stage has just made is a Preserve
Preserving == volHist'.n = volHist.n + 1 /\ volLast'.op = "preserve"
\* path is the volume p or lies under it
Under(path, p) == TrimSep(path) = p \/ HasPrefix(TrimSep(path), p \o Sep)
PrefixFree ==
    \A p, q \in volumes : p # q => ~HasPrefix(q, p \o Sep)
PreserveKeepsPrefixFree ==
    /\ volumes' # volumes => Preserving
    /\ Preserving =>
         LET path == volLast'.arg
             real == ResolveSymlink(path)
         IN  /\ (\E p \in volumes : Under(path, p) \/ Under(real, p))
                   => volumes' = volumes
             /\ (volLast'.err = "nil" /\ ~\E p \in volumes : Under(path, p))
                   => /\ real \in volumes'
                      /\ \A q \in volumes : HasPrefix(q, real \o Sep)
                                              => q \notin volumes'

\* C21: after any sequence of Preserve, COPY/ADD and RUN no entry of the
\* VolumeSet is a path prefix of another one: a Preserve of a path under a
\* preserved volume adds no entry, and a Preserve of a parent removes the
\* preserved paths below it.
C21_VolumeSetIsPrefixFree == [][PreserveKeepsPrefixFree]_vars /\ []PrefixFree
C21_Witness ==
    /\ volLast.op = "preserve" /\ volLast.arg = pA /\ volLast.err = "nil"
    /\ volumes = {pA}
    /\ pAB \in DOMAIN volumeCacheInfo

\* C22: between the steps of a stage, after any sequence of Preserve,
\* COPY/ADD and RUN, every key of volumeCache is an entry of the VolumeSet:
\* a path that a later Preserve of one of its parents has subsumed has no
\* volumeCache entry left.
C22_CacheKeysAreVolumes == DOMAIN volumeCache \subseteq volumes

----------------------------------------------------------------------------
(* Claims about topLayers *)

\* Execute has processed at least one instruction of the current stage
AfterStep ==
    \/ pc = "exec" /\ stepIndex > 1
    \/ pc = "post" /\ Len(dockerfile[stageIndex].children) > 0
\* The layers the build has committed: its commits of working containers
Committed == {c \in Commits : c.ctr # 0}

\* C23: for every build and every instruction i, after step i the length of
\* topLayers is the number of layers committed so far by all the stages of
\* the build.
C23_TopLayersCountsCommits ==
    AfterStep => Len(topLayers) = Cardinality(Committed)

\* The instructions processed so far that are not the last of their stage
FollowedByAnother ==
    {a \in blog.ran \cup {h.at : h \in blog.hits} :
        a.step < Len(dockerfile[a.stage].children)}

\* C23 as the code has it: the length of topLayers is the number of working
\* containers Prepare has created so far in the build, one for every stage
\* started and one after every instruction that is followed by another one
\* of its stage when steps are committed or looked up in the cache; the top
\* layers of the base images are counted, the layers committed for the last
\* instruction of a stage and by Build itself are not.
C23_TopLayersCountsPrepares ==
    /\ Len(topLayers) = Cardinality(blog.made)
    /\ pc \in {"exec", "post"} =>
         Len(topLayers) =
             stageIndex + (IF Flat THEN 0 ELSE Cardinality(FollowedByAnother))
C23_Witness ==
    /\ pc = "post" /\ stageIndex = 2 /\ opts.layers
    /\ Len(dockerfile[1].children) = 2 /\ Len(dockerfile[2].children) = 2
    /\ Len(topLayers) = 4 /\ Cardinality(Committed) = 5

\* C24: the container of every commit of a build (the commit of a step, the
\* commit Build makes for a named stage and the final commit of a build that
\* ignores layers) was created on the layer that is the last entry of
\* topLayers when the commit is made, and that layer is the parent of the
\* layer the commit adds.
CommitsOnLastTopLayer ==
    \A c \in NewCommits :
        /\ Len(topLayers) > 0
        /\ containers[c.ctr].topLayer = topLayers[Len(topLayers)]
        /\ c.id \in DOMAIN images'
        /\ Parent(images'[c.id].topLayer) = topLayers[Len(topLayers)]
----------------------------------------------------------------------------
(* Claims about the image Build returns and about what cleanup deletes *)

\* C25: whenever Build returns a nil error, the image whose id it returns
\* has not been deleted by the cleanup of the build, the id not being among
\* the images queued for deletion, whatever Layers and NoCache are and
\* whether the stages are named or not.
C25_ReturnedImageNotDeleted ==
    /\ (Succeeded /\ imageID # NoImage) => imageID \in DOMAIN images
    /\ (pc = "return" /\ buildErr = NoErr)
          => \A k \in 1..Len(cleanupImages) : cleanupImages[k] # imageID

\* C26: whenever Build returns a nil error, the image id it returns is not
\* empty and is the id of an image this build committed or copied, for every
\* number of stages and of instructions per stage, a final stage without
\* instructions included, in layered and in flat mode.
C26_ReturnedImageIsOfThisBuild ==
    Succeeded => /\ imageID # NoImage
                 /\ \E c \in Commits : c.id = imageID

\* The deletions the cleanups of the current build have called for
Deletions ==
    UNION {{[run |-> j, call |-> d] : d \in blog.dels[j].calls} :
             j \in {k \in 1..Len(blog.dels) : blog.dels[k].build = buildNo}}

\* C27: during one Build no container and no image is deleted more than
\* once, on the path of success, where cleanup is called and then runs again
\* as the deferred call, and on every path of failure, a failed Prepare
\* between two steps included, although a stage is found in the stages map
\* under several keys.
C27_NothingDeletedTwice ==
    \A x, y \in Deletions :
        (x.call.what = y.call.what /\ x.call.id = y.call.id) => x = y

\* A step that takes a container or an image out of the store is made after
\* the last stage has executed or after the build has failed
DeletesOnlyAtTheEnd ==
    (\/ DOMAIN containers \ DOMAIN containers' # {}
     \/ DOMAIN images \ DOMAIN images' # {})
        => /\ pc \in {"finish", "return"}
           /\ buildErr # NoErr \/ blog.executed = 1..numStages
\* While a stage executes, every earlier stage's working container, which is
\* its mountpoint, and every container it left behind after a step are in
\* the store, and so is every image queued in cleanupImages
EarlierStagesKept ==
    pc = "exec" =>
        /\ \A j \in 1..(stageIndex - 1) :
              /\ se[j].builder # 0
              /\ se[j].mountPoint = se[j].builder
              /\ se[j].mountPoint \in DOMAIN containers
              /\ Range(se[j].containerIDs) \subseteq DOMAIN containers
        /\ Range(cleanupImages) \subseteq DOMAIN images

\* C28: no stage's working container, no container left by a step and no
\* intermediate image is deleted before the last stage has executed or the
\* build has failed; hence, while any stage executes, the mountpoint of every
\* earlier stage is still there as a source of COPY --from.
C28_NothingDeletedBeforeTheEnd ==
    [][DeletesOnlyAtTheEnd]_vars /\ []EarlierStagesKept
\* The second stage executes its second step while the first stage's
\* containers and its committed image are in the store
C28_Witness ==
    /\ pc = "exec" /\ stageIndex = 2 /\ stepIndex = 2
    /\ se[1].containerIDs # <<>>
    /\ cleanupImages # <<>>
    /\ se[1].mountPoint \in DOMAIN containers
    /\ Range(se[1].containerIDs) \subseteq DOMAIN containers
    /\ Range(cleanupImages) \subseteq DOMAIN images

----------------------------------------------------------------------------
(* Claims about RUN and the declared volumes *)

\* C29: from the moment Preserve(path) has succeeded, only COPY and ADD
\* modify the directory or anything below it: also after a COPY/ADD has
\* invalidated the snapshot of the volume, a RUN saves the volume before it
\* runs and resets it afterwards, so that after every RUN of the stage the
\* tree below every declared volume is what it was before the RUN.
C29_RunChangesUnderVolumesAreDiscarded ==
    [][(volLast'.op = "run" /\ volHist'.n = volHist.n + 1) =>
          \A v \in volumes :
             TreeBelow(dirs', files', v) = TreeBelow(dirs, files, v)]_vars

\* A step of the stage that is a call of Run
RunStep == volLast'.op = "run" /\ volHist'.n = volHist.n + 1
\* The keys of volumeCache that have no other key below or above them, so
\* that what is saved and restored for them does not depend on the order in
\* which the loops range over the map
Alone(cache) ==
    {c \in DOMAIN cache :
        \A d \in DOMAIN cache \ {c} :
            ~HasPrefix(c, d \o Sep) /\ ~HasPrefix(d, c \o Sep)}
\* The calls a Run made, and whether the call named fn returned no error
CallNames(calls) == [k \in DOMAIN calls |-> calls[k].fn]
ReturnedNil(calls, fn) == \E k \in DOMAIN calls : calls[k] = Call(fn, FALSE)
\* The order of the calls: the command is run only after volumeCacheSave has
\* returned without error, and then volumeCacheRestore is called last
CallsInOrder ==
    RunStep =>
        \/ volLast'.calls = <<Call("volumeCacheSave", TRUE)>>
        \/ /\ CallNames(volLast'.calls) =
                 <<"volumeCacheSave", "builder.Run", "volumeCacheRestore">>
           /\ ~volLast'.calls[1].err
\* volumeCacheSave has completed before the command runs: a snapshot written
\* by this Run holds the tree as it was before the command
SavedBeforeRun ==
    (RunStep /\ "builder.Run" \in Range(CallNames(volLast'.calls))) =>
        \A c \in Alone(volumeCache) :
            volumeCache[c] \notin DOMAIN tars =>
                /\ volumeCache[c] \in DOMAIN tars'
                /\ tars'[volumeCache[c]] = Tar(dirs, files, c)
\* volumeCacheRestore has run after the command, whether the command failed
\* or not, when Run returns: where it returned no error, the tree below the
\* volume is its snapshot
RestoredAfterRun ==
    (RunStep /\ "builder.Run" \in Range(CallNames(volLast'.calls))) =>
        /\ "volumeCacheRestore" \in Range(CallNames(volLast'.calls))
        /\ ReturnedNil(volLast'.calls, "volumeCacheRestore") =>
              \A c \in Alone(volumeCache') :
                  /\ volumeCache'[c] \in DOMAIN tars'
                  /\ Tar(dirs', files', c) = tars'[volumeCache'[c]]
SaveRunRestore == CallsInOrder /\ SavedBeforeRun /\ RestoredAfterRun

\* C30: for every RUN of a stage, volumeCacheSave completes before the
\* command is run, and volumeCacheRestore is called after the command has
\* returned and before Run returns, hence before any other instruction is
\* processed or any commit is made, also when the command fails.
C30_SaveThenRunThenRestore == [][SaveRunRestore]_vars
\* A RUN whose command failed after it had written below a volume: the file
\* is back to what the snapshot taken by this RUN holds
C30_Witness ==
    /\ volLast.op = "run" /\ volLast.err = "run"
    /\ volLast.calls = <<Call("volumeCacheSave", FALSE),
                         Call("builder.Run", TRUE),
                         Call("volumeCacheRestore", FALSE)>>
    /\ volLast.arg = FileOf(pA)
    /\ volHist.n = 2
    /\ pA \in Alone(volumeCache)
    /\ volumeCache[pA] \in DOMAIN tars
    /\ files[FileOf(pA)] # "run"
    /\ files[FileOf(pA)] = tars[volumeCache[pA]].files[FileOf(pA)]

\* The error Run has to return for the calls it made
ErrorOf(calls) ==
    IF calls[1].err THEN "save"
    ELSE IF calls[2].err THEN "run"
    ELSE IF calls[3].err THEN "restore"
    ELSE "nil"

\* C31: Run returns the error of volumeCacheSave, without running the
\* command and without calling volumeCacheRestore, when volumeCacheSave
\* fails; otherwise the error of the command when it failed, whatever
\* volumeCacheRestore returned; otherwise the error of volumeCacheRestore
\* when it failed; otherwise nil.
C31_ErrorOfRun ==
    [][RunStep =>
         /\ volLast'.calls[1].fn = "volumeCacheSave"
         /\ volLast'.calls[1].err => Len(volLast'.calls) = 1
         /\ volLast'.err = ErrorOf(volLast'.calls)]_vars
\* The command failed and so did volumeCacheRestore: Run returns the error
\* of the command
C31_Witness ==
    /\ volLast.op = "run"
    /\ volLast.calls = <<Call("volumeCacheSave", FALSE),
                         Call("builder.Run", TRUE),
                         Call("volumeCacheRestore", TRUE)>>
    /\ volLast.err = "run"

\* The volumes that have a cache entry and a snapshot file
Snapshotted == {c \in DOMAIN volumeCache : volumeCache[c] \in DOMAIN tars}
\* A Run leaves the snapshot files there are as they are, writes those that
\* are missing when volumeCacheSave returns no error, and resets every
\* volume that had a snapshot to it when volumeCacheRestore returns no error
SnapshotWrittenOnce ==
    RunStep =>
        /\ \A c \in Snapshotted :
              /\ volumeCache'[c] = volumeCache[c]
              /\ volumeCache[c] \in DOMAIN tars'
              /\ tars'[volumeCache[c]] = tars[volumeCache[c]]
              /\ ReturnedNil(volLast'.calls, "volumeCacheRestore") =>
                    Tar(dirs', files', c) = tars[volumeCache[c]]
        /\ ReturnedNil(volLast'.calls, "volumeCacheSave") =>
              \A c \in DOMAIN volumeCache : volumeCache[c] \in DOMAIN tars'

\* C32: while the cache entry of a volume is not invalidated,
\* volumeCacheSave writes its snapshot file at most once in the stage, at the
\* first RUN after Preserve; every later RUN leaves the file as it is and
\* resets the volume to what that first snapshot holds.
C32_SnapshotOncePerStage == [][SnapshotWrittenOnce]_vars
\* A RUN after a COPY to the path of the volume, which invalidates nothing:
\* the volume is reset to the snapshot written by the RUN before the COPY
C32_Witness ==
    /\ volLast.op = "run" /\ volLast.err = "nil"
    /\ volHist.copied = {FileOf(pA)}
    /\ pA \in Snapshotted
    /\ files[FileOf(pA)] # "copy"
    /\ files[FileOf(pA)] = tars[volumeCache[pA]].files[FileOf(pA)]

----------------------------------------------------------------------------
(* Claims about the steps of Execute *)

\* A step a of the same stage of the same build as b, before b
EarlierStep(a, b) == a.build = b.build /\ a.stage = b.stage /\ a.step < b.step
\* The steps reported as cache hits
HitSteps == {h.at : h \in blog.hits}

\* C33: within one stage's Execute, once a step has missed the layer cache
\* no later step of that stage queries the cache or is reported as a hit, so
\* that the hits of a stage are a prefix of its steps; with NoCache the cache
\* is never queried.
C33_HitsArePrefixOfSteps ==
    /\ \A q \in blog.queries \cup HitSteps, a \in blog.ran : ~EarlierStep(a, q)
    /\ \A h \in HitSteps :
          \A k \in 1..(h.step - 1) : [h EXCEPT !.step = k] \in HitSteps
    /\ HitSteps \subseteq blog.queries
    /\ HitSteps \cap blog.ran = {}
    /\ ~opts.useCache => blog.queries = {}
\* The second build of COPY f / RUN a after the file was modified: the COPY
\* misses and the RUN, whose image of the first build is in the store, is
\* processed without a query
C33_Witness ==
    /\ buildNo = 2 /\ pc = "post" /\ opts.useCache
    /\ dockerfile[1].children = <<CopyF, RunA>>
    /\ blog.results[1].dockerfile = dockerfile
    /\ ~blog.results[1].err
    /\ [build |-> 2, stage |-> 1, step |-> 1] \in blog.queries \cap blog.ran
    /\ [build |-> 2, stage |-> 1, step |-> 2] \in blog.ran \ blog.queries

\* A step of Execute that is not the stage's last one and after which
\* Execute goes on, in a build that makes layers
StepTaken ==
    /\ pc = "exec" /\ pc' = "exec" /\ ~Flat
    /\ stageIndex' = stageIndex /\ stepIndex' = stepIndex + 1
\* The stage's next working container is a new one, on image id
NextOn(id) ==
    LET now == se'[stageIndex].builder
    IN  /\ now \notin DOMAIN containers
        /\ now \in DOMAIN containers'
        /\ containers'[now].image = id
        /\ containers'[now].topLayer = images'[id].topLayer
        /\ containers'[now].history = images'[id].history
        /\ containers'[now].work = <<>>
\* A hit: nothing is processed, nothing is committed, the next container is
\* on the cached image
HitStep ==
    LET old == se[stageIndex].builder
    IN  \E h \in blog'.hits \ blog.hits :
           /\ h.at = Here
           /\ blog'.ran = blog.ran
           /\ blog'.commits = blog.commits
           /\ images' = images
           /\ containers'[old] = containers[old]
           /\ NextOn(h.id)
\* A miss: the instruction is processed once, the container is committed
\* once, the next container is on the image just committed
MissStep ==
    LET old == se[stageIndex].builder
    IN  /\ blog'.hits = blog.hits
        /\ blog'.ran = blog.ran \cup {Here} /\ Here \notin blog.ran
        /\ containers'[old].work =
               Append(containers[old].work, Children[stepIndex].original)
        /\ \E c \in blog'.commits \ blog.commits :
              /\ blog'.commits = blog.commits \cup {c}
              /\ c.at = Here /\ c.kind = "step" /\ c.ctr = old
              /\ c.id \notin DOMAIN images
              /\ DOMAIN images' = DOMAIN images \cup {c.id}
              /\ images'[c.id].topLayer =
                     Append(containers[old].topLayer, containers'[old].work)
              /\ NextOn(c.id)
HitOrMiss == StepTaken => (HitStep \/ MissStep) /\ ~(HitStep /\ MissStep)

\* C34: in a build that makes layers every step of a stage but the last is
\* exactly one of: a cache hit, where the instruction is not processed,
\* nothing is committed and the next working container is made from the
\* cached image; or a miss, where the instruction is processed once, then
\* committed once, and the next working container is made from the image
\* just committed.
C34_StepIsHitOrMiss == [][HitOrMiss]_vars
\* The second stage has reused the first stage's image for its first step
\* and works on a container of that image; the first stage's steps missed
C34_Witness ==
    /\ pc = "exec" /\ stageIndex = 2 /\ stepIndex = 2 /\ ~Flat
    /\ [build |-> 1, stage |-> 1, step |-> 1] \in blog.ran
    /\ \E h \in blog.hits :
          /\ h.at = [build |-> 1, stage |-> 2, step |-> 1]
          /\ containers[se[2].builder].image = h.id
          /\ \E c \in blog.commits :
                c.id = h.id /\ c.at = [build |-> 1, stage |-> 1, step |-> 1]

\* The build makes one layer: Layers is unset and the cache is enabled
SingleLayer == ~opts.layers /\ opts.useCache
\* An iteration of Execute in a single-layer build: the instruction is
\* processed in the stage's working container, unless that fails, and
\* nothing else changes
FlatStep ==
    (pc = "exec" /\ SingleLayer) =>
            LET old == se[stageIndex].builder
            IN  /\ DOMAIN images' = DOMAIN images
                /\ blog'.commits = blog.commits
                /\ se' = se
                /\ topLayers' = topLayers
                /\ blog'.queries = blog.queries /\ blog'.hits = blog.hits
                /\ DOMAIN containers' = DOMAIN containers
                /\ \A c \in DOMAIN containers \ {old} :
                      containers'[c] = containers[c]
                /\ pc' # "return" =>
                      /\ Here \in blog'.ran
                      /\ containers'[old] =
                            [containers[old] EXCEPT
                               !.work = Append(@, Children[stepIndex].original)]
\* When Execute has returned in a single-layer build, the stage's working
\* container holds every instruction of the stage, in order
FlatDone ==
    (pc = "post" /\ SingleLayer) =>
        /\ se[stageIndex].containerIDs = <<>>
        /\ se[stageIndex].mountPoint = se[stageIndex].builder
        /\ containers[se[stageIndex].builder].work =
              [k \in 1..Len(dockerfile[stageIndex].children) |->
                  dockerfile[stageIndex].children[k].original]

\* C35: in a single-layer build (Layers unset, cache enabled) Execute
\* processes every instruction of a stage in the same working container and
\* leaves unchanged the committed images, the stage's working container and
\* mountpoint, topLayers and the stage's containerIDs; it never queries the
\* layer cache.
C35_FlatExecuteOnlyDispatches ==
    [][FlatStep]_vars /\ [](FlatDone /\ (SingleLayer => blog.queries = {}))
\* Execute has returned for the second stage of a single-layer build whose
\* stages have two instructions each
C35_Witness ==
    /\ pc = "post" /\ SingleLayer /\ stageIndex = 2
    /\ Len(dockerfile[1].children) = 2 /\ Len(dockerfile[2].children) = 2
    /\ Len(containers[se[2].builder].work) = 2
    /\ blog.commits = {}
    /\ Len(topLayers) = 2

----------------------------------------------------------------------------
(* Claims about the errors of cleanup *)

\* The step is the call of cleanup that follows the last stage (1440)
CleanupCalled == pc = "finish" /\ Len(blog'.dels) = Len(blog.dels) + 1
\* A failed deletion that cleanup returns as its error
Fatal(d) == d.err = "other" \/ (d.err = "in use" /\ opts.forceRmIntermediateCtrs)
CleanupErrors ==
    CleanupCalled =>
        LET made == blog'.dels[Len(blog'.dels)]
            n    == Len(cleanupImages)
        IN  /\ Len(made.images) = n
            /\ \A i \in 1..n : made.images[i] = cleanupImages[n - i + 1]
            /\ {d.id : d \in {e \in made.calls : e.what = "image"}}
                   = Range(cleanupImages)
            /\ IF \E d \in made.calls : Fatal(d)
               THEN buildErr' # NoErr /\ imageID' = NoImage
               ELSE buildErr' = NoErr

\* C36: cleanup deletes the queued intermediate images in the reverse order
\* of their queuing; the failed deletion of an image that a container still
\* uses does not make Build fail unless ForceRmIntermediateCtrs is set,
\* whereas any other failed deletion of a container or an image in the call
\* of cleanup that follows the stages of a build, all of which succeeded,
\* makes Build return an error and an empty image id.
C36_CleanupOrderAndErrors == [][CleanupErrors]_vars
\* Build returns without error after a cleanup of two queued images, deleted
\* last queued first, one of which a container still uses
C36_Witness ==
    /\ pc = "return" /\ buildErr = NoErr
    /\ ~opts.forceRmIntermediateCtrs
    /\ Len(blog.dels) = 1
    /\ Len(blog.dels[1].images) = 2
    /\ blog.dels[1].images[1] > blog.dels[1].images[2]
    /\ \E d \in blog.dels[1].calls : d.what = "image" /\ d.err = "in use"

----------------------------------------------------------------------------
(* Claims about processCopyFrom *)

\* The Dockerfiles given to processCopyFrom and the names X of the
\* COPY --from=X of a Dockerfile
Inputs == [k \in 1..Len(pathList) |-> pathList[k].text]
CopyFromNames(text) ==
    LET w == Flatten(text)
    IN  {SubSeq(w[k + 1], Len(FromFlag) + 2, Len(w[k + 1])) :
            k \in {j \in 1..(Len(w) - 1) :
                      w[j] = CopyWord /\ HasPrefix(w[j + 1], FromFlag \o <<"=">>)}}
\* The names a Dockerfile has after FROM and after AS
NamesOf(text) ==
    {text[k][2] : k \in {j \in 1..Len(text) : text[j][1] = FromWord}}
      \cup {text[k][4] : k \in {j \in 1..Len(text) :
                                  text[j][1] = FromWord /\ Len(text[j]) = 4}}
\* processCopyFrom has returned the Dockerfiles that are parsed
Processed == fpc = "called" /\ dockerfiles # <<>>

\* C37: processCopyFrom returns a sequence that holds every Dockerfile it
\* was given exactly once, unchanged and in the order given; a Dockerfile
\* without COPY --from= has nothing inserted before it, and every other
\* element is a Dockerfile FROM X that stands before the Dockerfile with the
\* --from=X it was made for, with nothing but such Dockerfiles in between, X
\* being neither an integer nor a name that Dockerfile has after FROM or AS.
C37_EveryDockerfileKeptInOrder ==
    Processed =>
        \E pos \in [1..Len(Inputs) -> 1..Len(dockerfiles)] :
           /\ \A k \in 1..Len(Inputs) :
                 /\ dockerfiles[pos[k]] = Inputs[k]
                 /\ k > 1 => pos[k - 1] < pos[k]
                 /\ CopyFromNames(Inputs[k]) = {} =>
                       pos[k] = (IF k = 1 THEN 1 ELSE pos[k - 1] + 1)
           /\ \A j \in 1..Len(dockerfiles) :
                 (\A k \in 1..Len(Inputs) : pos[k] # j) =>
                     \E k \in 1..Len(Inputs) :
                        /\ pos[k] > j
                        /\ \A i \in 1..Len(Inputs) : ~(j < pos[i] /\ pos[i] < pos[k])
                        /\ \E X \in CopyFromNames(Inputs[k]) :
                              /\ dockerfiles[j] = << <<FromWord, X>> >>
                              /\ AtoiFails(X)
                              /\ X \notin NamesOf(Inputs[k])

----------------------------------------------------------------------------
(* Claims about the cache lookup and the created-by lines *)

\* The instructions of the stage up to and including the current step
UpToHere == SubSeq(Children, 1, stepIndex)
Looking == pc = "exec" /\ stepIndex <= Len(Children) /\ Probes
ShortHistories ==
    {id \in Examined(images, topLayers) : Len(images[id].history) < stepIndex}

\* C38: the lookup of a cached layer never reads a history outside its
\* bounds: for an examined image whose history has fewer entries than the
\* stage has instructions up to and including the current step,
\* historyMatches answers "no match", and the build never ends in the
\* run-time panic of an index out of range.
C38_LookupStaysInBounds ==
    /\ pc # "panic"
    /\ Looking =>
          \A id \in ShortHistories :
             historyMatches(UpToHere, images[id].history) = "false"

\* The history a build writes that commits every one of the instructions
\* and starts from an image without history
Encoded(children) ==
    [k \in 1..Len(children) |->
        [createdBy |-> getCreatedBy(children[k]), created |-> 0]]
RunWord == <<"R", "U", "N", " ">>
\* The created-by line of an instruction is the one the claim gives
CreatedByAsStated(node) ==
    IF node.value = "run"
    THEN \E k \in 1..(Len(node.original) + 1) :
            LET x == SubSeq(node.original, k, Len(node.original))
            IN  /\ node.original = RunWord \o x
                /\ getCreatedBy(node) =
                      <<"/", "b", "i", "n", "/", "s", "h", " ", "-", "c", " ">> \o x
    ELSE getCreatedBy(node) =
            <<"/", "b", "i", "n", "/", "s", "h", " ", "-", "c", " ",
              "#", "(", "n", "o", "p", ")", " ">> \o node.original
AtStep == pc = "exec" /\ stepIndex <= Len(Children)

\* C39: committing and looking up agree on the created-by line: getCreatedBy
\* makes "/bin/sh -c x" of "RUN x" and "/bin/sh -c #(nop) I" of any other
\* instruction I, historyMatches accepts the history made of the
\* getCreatedBy lines of the stage's instructions up to the current step, in
\* their order, and an examined image of the store that has this history
\* matches.
C39_CreatedByMatchesItself ==
    AtStep =>
        /\ \A k \in 1..stepIndex : CreatedByAsStated(Children[k])
        /\ historyMatches(UpToHere, Encoded(UpToHere)) = "true"
        /\ \A id \in Examined(images, topLayers) :
              images[id].history = Encoded(UpToHere) =>
                  historyMatches(UpToHere, images[id].history) = "true"
\* The second step of a stage COPY, RUN whose first step was a hit on the
\* image of the store that has the created-by line of the COPY as history
C39_Witness ==
    /\ AtStep /\ stepIndex = 2
    /\ Children[1].value = "copy" /\ Children[2].value = "run"
    /\ \E h \in blog.hits :
          /\ h.at.step = 1
          /\ h.id # BaseImage
          /\ images[h.id].history = Encoded(<<Children[1]>>)
====
